---- MODULE Spec2Model ----
(***************************************************************************)
(* Model of the summary pipeline of the YouTube Video Summarizer           *)
(* extension: SummaryCache (cache.js), APIManager (api-manager.js) and the *)
(* request handlers of the background service worker (background.js).      *)
(*                                                                         *)
(* JavaScript runs each handler atomically between two awaits, so every    *)
(* action below is the code between one await and the next.  A task is one *)
(* asynchronous call in progress; pc[t] is the await it is suspended at.   *)
(***************************************************************************)
EXTENDS Integers, Sequences, FiniteSets, TLC

VARIABLES
    now,         \* Date.now()
    ticks,       \* number of clock advances so far (bounds the clock)
    localStore,  \* chrome.storage.local: key -> value, for the keys present
    syncStore,   \* chrome.storage.sync: the settings record
    currentProvider, \* APIManager.currentProvider
    pc,          \* per task: the await it is suspended at, or "idle"
    call,        \* per task: the current (or last completed) call
    loc          \* per task: local variables of the call in progress

vars == <<now, ticks, localStore, syncStore, currentProvider, pc, call, loc>>

(***************************************************************************)
(* Bounds and input sets                                                   *)
(***************************************************************************)
MaxTicks == 2

Tasks == {"t1", "t2"}
VideoIds == {"abc123", "xyz789"}

(***************************************************************************)
(* cache.js                                                                *)
(***************************************************************************)
CACHE_PREFIX == "yt_summary_"
DEFAULT_TTL_HOURS == 168
MS_PER_HOUR == 60 * 60 * 1000

\* the ttlHours argument of set: <<>> when the caller omits it, <<h>> otherwise
TtlArgs == {<<>>, <<1>>}

\* set(videoId, data, ttlHours = DEFAULT_TTL_HOURS): the default parameter
TtlOrDefault(arg) == IF arg = <<>> THEN DEFAULT_TTL_HOURS ELSE arg[1]

\* clock advances: a millisecond, the default time to live
TickSteps == {1, DEFAULT_TTL_HOURS * MS_PER_HOUR}

\* JavaScript null / undefined, and values returned by a call
Null == [type |-> "null"]
NoCall == [op |-> "none"]
NoLocals == [none |-> TRUE]

\* JavaScript truthiness of a number
Truthy(n) == n # 0

CacheKey(videoId) == CACHE_PREFIX \o videoId

\* a prefix test that every key passes
StartsWith_Always(s, prefix) == TRUE

StartsWith(s, prefix) ==
    /\ Len(s) >= Len(prefix)
    /\ SubSeq(s, 1, Len(prefix)) = prefix

\* a write that leaves an existing entry as it is
StorePut_KeepsExisting(store, key, value) ==
    IF key \in DOMAIN store THEN store
    ELSE [k \in (DOMAIN store) \cup {key} |-> IF k = key THEN value ELSE store[k]]

\* chrome.storage.local.set({[key]: value})
StorePut(store, key, value) ==
    [k \in (DOMAIN store) \cup {key} |-> IF k = key THEN value ELSE store[k]]

\* a removal that removes nothing
StoreRemove_Nothing(store, keys) == store

\* chrome.storage.local.remove(keys)
StoreRemove(store, keys) ==
    [k \in (DOMAIN store) \ keys |-> store[k]]

\* a set that converts the time to live from minutes instead of hours
NewEntry_Minutes(data, t, ttlHours) ==
    [data |-> data,
     expiresAt |-> t + (ttlHours * 60 * 1000),
     cachedAt |-> t]

\* the entry written by set(videoId, data, ttlHours) at time t
NewEntry(data, t, ttlHours) ==
    [data |-> data,
     expiresAt |-> t + (ttlHours * 60 * 60 * 1000),
     cachedAt |-> t]

\* an expiry test with the comparison the wrong way round
IsExpired_Flipped(cached, t) == Truthy(cached.expiresAt) /\ t < cached.expiresAt

\* the expiry test of get
IsExpired(cached, t) == Truthy(cached.expiresAt) /\ t > cached.expiresAt

\* a get that returns the stored wrapper instead of its data field
GetOutcome_ReturnsEntry(store, key, t, ok) ==
    IF ~ok THEN [kind |-> "return", value |-> Null]
    ELSE IF key \notin DOMAIN store THEN [kind |-> "return", value |-> Null]
    ELSE IF IsExpired(store[key], t) THEN [kind |-> "delete", value |-> Null]
    ELSE [kind |-> "return", value |-> store[key]]

\* get, from the storage read to the first of: return, await this.delete
GetOutcome(store, key, t, ok) ==
    IF ~ok THEN [kind |-> "return", value |-> Null]
    ELSE IF key \notin DOMAIN store THEN [kind |-> "return", value |-> Null]
    ELSE IF IsExpired(store[key], t) THEN [kind |-> "delete", value |-> Null]
    ELSE [kind |-> "return", value |-> store[key].data]

\* a clear that compares keys with the prefix instead of testing the prefix
KeysToRemove_ExactMatch(store) == {k \in DOMAIN store : k = CACHE_PREFIX}

\* the keys clear() selects from a snapshot of the store
KeysToRemove(store) == {k \in DOMAIN store : StartsWith(k, CACHE_PREFIX)}

\* a getStats that counts an entry at its very expiry time as expired
StatsOf_StrictValid(store, t) ==
    LET cacheKeys == KeysToRemove(store)
        valid == {k \in cacheKeys :
                    ~Truthy(store[k].expiresAt) \/ t < store[k].expiresAt}
    IN  [total |-> Cardinality(cacheKeys),
         valid |-> Cardinality(valid),
         expired |-> Cardinality(cacheKeys) - Cardinality(valid)]

\* getStats on a snapshot of the store
StatsOf(store, t) ==
    LET cacheKeys == KeysToRemove(store)
        valid == {k \in cacheKeys :
                    ~Truthy(store[k].expiresAt) \/ t <= store[k].expiresAt}
    IN  [total |-> Cardinality(cacheKeys),
         valid |-> Cardinality(valid),
         expired |-> Cardinality(cacheKeys) - Cardinality(valid)]

\* a getStats without its catch block: the storage failure reaches the caller
EmptyStats_Rejects == [rejected |-> "storage failure"]

\* what getStats returns from its catch block
EmptyStats == [total |-> 0, valid |-> 0, expired |-> 0]


(***************************************************************************)
(* Calls: bookkeeping shared by every operation                            *)
(***************************************************************************)
\* a JavaScript string value (a field that holds a string or null)
Str(s) == [type |-> "string", value |-> s]

\* JavaScript truthiness of a string-or-null value
TruthyStr(v) == v.type = "string" /\ v.value # ""

\* v || fallback, for a string-or-null v and a string fallback
OrElse(v, fallback) == IF TruthyStr(v) THEN v.value ELSE fallback

\* a call record: the operation, its arguments, the storage, network and
\* console calls it has made so far (log) and, once settled, what it returned
NewCall(op, args) == [op |-> op, args |-> args, log |-> <<>>, ret |-> Null]

Logged(c, e) == [c EXCEPT !.log = Append(@, e)]

\* the call settles with value v
Settle(c, v) == [c EXCEPT !.ret = v]

\* task t starts a new call and runs to its first await, p
Begin(t, c, p, l) ==
    /\ pc[t] = "idle"
    /\ call' = [call EXCEPT ![t] = c]
    /\ pc' = [pc EXCEPT ![t] = p]
    /\ loc' = [loc EXCEPT ![t] = l]

\* task t resumes and runs to its next await, p
Continue(t, c, p, l) ==
    /\ call' = [call EXCEPT ![t] = c]
    /\ pc' = [pc EXCEPT ![t] = p]
    /\ loc' = [loc EXCEPT ![t] = l]

\* the events of kind ev in a log, in order
Events(log, ev) == SelectSeq(log, LAMBDA e : e.ev = ev)

(***************************************************************************)
(* SummaryCache called directly (message handlers, tests)                  *)
(***************************************************************************)
SampleData ==
    { [summary |-> "S1", provider |-> "gemini"],
      [summary |-> "S2", provider |-> "local"] }

\* cache.get(videoId): the storage read, the expiry test
CacheGet(t, videoId, ok) ==
    LET key == CacheKey(videoId)
        out == GetOutcome(localStore, key, now, ok)
        c == Logged(NewCall("get", [videoId |-> videoId]),
                    [ev |-> "local.get", ok |-> ok, at |-> now])
    IN  /\ IF out.kind = "return"
             THEN Begin(t, Settle(c, out.value), "idle", NoLocals)
             ELSE Begin(t, c, "get_delete", NoLocals)
        /\ UNCHANGED <<now, ticks, localStore, syncStore, currentProvider>>

\* cache.get(videoId), expired entry: await this.delete(videoId); return null
CacheGetDelete(t, ok) ==
    /\ pc[t] = "get_delete"
    /\ Continue(t, Settle(Logged(call[t], [ev |-> "local.remove", ok |-> ok, at |-> now]),
                          Null),
                "idle", NoLocals)
    /\ localStore' = IF ok
                       THEN StoreRemove(localStore, {CacheKey(call[t].args.videoId)})
                       ELSE localStore
    /\ UNCHANGED <<now, ticks, syncStore, currentProvider>>

\* cache.set(videoId, data, ttlHours)
CacheSet(t, videoId, data, ttlArg, ok) ==
    /\ Begin(t, Logged(NewCall("set", [videoId |-> videoId, data |-> data,
                                       ttlHours |-> ttlArg]),
                       [ev |-> "local.set", ok |-> ok, at |-> now,
                        had |-> CacheKey(videoId) \in DOMAIN localStore]),
             "idle", NoLocals)
    /\ localStore' = IF ok
                       THEN StorePut(localStore, CacheKey(videoId),
                                     NewEntry(data, now, TtlOrDefault(ttlArg)))
                       ELSE localStore
    /\ UNCHANGED <<now, ticks, syncStore, currentProvider>>

\* cache.delete(videoId)
CacheDelete(t, videoId, ok) ==
    /\ Begin(t, Logged(NewCall("delete", [videoId |-> videoId]),
                       [ev |-> "local.remove", ok |-> ok, at |-> now]),
             "idle", NoLocals)
    /\ localStore' = IF ok
                       THEN StoreRemove(localStore, {CacheKey(videoId)})
                       ELSE localStore
    /\ UNCHANGED <<now, ticks, syncStore, currentProvider>>

\* cache.clear(): the snapshot of the store and the choice of keys
CacheClear(t, ok) ==
    LET keys == IF ok THEN KeysToRemove(localStore) ELSE {}
        c == Logged(NewCall("clear", [all |-> TRUE]),
                    [ev |-> "local.get", ok |-> ok, at |-> now])
    IN  /\ IF ok /\ Cardinality(keys) > 0
             THEN Begin(t, c, "clear_remove", [keysToRemove |-> keys])
             ELSE Begin(t, Settle(c, 0), "idle", NoLocals)
        /\ UNCHANGED <<now, ticks, localStore, syncStore, currentProvider>>

\* cache.clear(): the removal of the chosen keys, and the count returned
CacheClearRemove(t, ok) ==
    /\ pc[t] = "clear_remove"
    /\ Continue(t, Settle(Logged(call[t], [ev |-> "local.remove", ok |-> ok, at |-> now]),
                          IF ok THEN Cardinality(loc[t].keysToRemove) ELSE 0),
                "idle", NoLocals)
    /\ localStore' = IF ok
                       THEN StoreRemove(localStore, loc[t].keysToRemove)
                       ELSE localStore
    /\ UNCHANGED <<now, ticks, syncStore, currentProvider>>

\* cache.getStats()
CacheGetStats(t, ok) ==
    /\ Begin(t, Settle(Logged(NewCall("getStats", [all |-> TRUE]),
                              [ev |-> "local.get", ok |-> ok, at |-> now]),
                       IF ok THEN StatsOf(localStore, now) ELSE EmptyStats),
             "idle", NoLocals)
    /\ UNCHANGED <<now, ticks, localStore, syncStore, currentProvider>>

\* the clock stops after two default times to live (and a little more)
Horizon == ((2 * DEFAULT_TTL_HOURS) + 3) * MS_PER_HOUR

\* time passes
Tick(d) ==
    /\ ticks < MaxTicks
    /\ now + d <= Horizon
    /\ now' = now + d
    /\ ticks' = ticks + 1
    /\ UNCHANGED <<localStore, syncStore, currentProvider, pc, call, loc>>

(***************************************************************************)
(* api-manager.js                                                          *)
(***************************************************************************)
\* a cascade that tries OpenRouter before Gemini
Providers_Swapped == <<"openrouter", "gemini", "deepseek", "local">>

\* this.providers
Providers == <<"gemini", "openrouter", "deepseek", "local">>

\* the settings record of chrome.storage.sync: "" is an absent or empty value
SettingsSpace ==
    [apiKey : {"", "gemini-key"},
     openRouterApiKey : {"", "openrouter-key"},
     deepSeekApiKey : {"", "deepseek-key"},
     ollamaUrl : {"", "http://localhost:11434"}]

\* a credential test that lets every provider through
MissingCredential_NeverMissing(settings, provider) == FALSE

\* the credential test at the head of _callGemini, _callOpenRouter and
\* _callDeepSeek; _callLocal has none and falls back on default values
MissingCredential(settings, provider) ==
    \/ provider = "gemini" /\ settings.apiKey = ""
    \/ provider = "openrouter" /\ settings.openRouterApiKey = ""
    \/ provider = "deepseek" /\ settings.deepSeekApiKey = ""

DisplayName(provider) ==
    CASE provider = "gemini" -> "Gemini"
      [] provider = "openrouter" -> "OpenRouter"
      [] provider = "deepseek" -> "DeepSeek"
      [] OTHER -> "Ollama"

NotConfiguredMessage(provider) == DisplayName(provider) \o " API key not configured"

\* what the network does with a provider request
Ok(text) == [kind |-> "ok", text |-> text]
Http(status) == [kind |-> "http", status |-> status]
NetworkError == [kind |-> "network"]
Malformed == [kind |-> "malformed"]

ErrorBody == "upstream error"
OllamaDefaultModel == "llama3.2"

\* a cloud provider that answers a payload without the text field with the
\* placeholder the local provider uses
CloudResult_AcceptsMalformed(provider, outcome) ==
    CASE outcome.kind = "ok" -> [ok |-> TRUE, value |-> outcome.text]
      [] outcome.kind = "http" ->
            [ok |-> FALSE,
             value |-> DisplayName(provider) \o " API error: " \o outcome.status
                          \o " - " \o ErrorBody]
      [] outcome.kind = "network" -> [ok |-> FALSE, value |-> "Failed to fetch"]
      [] OTHER -> [ok |-> TRUE, value |-> "No response"]

\* _callGemini, _callOpenRouter, _callDeepSeek from the response on
CloudResult(provider, outcome) ==
    CASE outcome.kind = "ok" -> [ok |-> TRUE, value |-> outcome.text]
      [] outcome.kind = "http" ->
            [ok |-> FALSE,
             value |-> DisplayName(provider) \o " API error: " \o outcome.status
                          \o " - " \o ErrorBody]
      [] outcome.kind = "network" -> [ok |-> FALSE, value |-> "Failed to fetch"]
      [] OTHER ->
            [ok |-> FALSE,
             value |-> "Cannot read properties of undefined (reading '0')"]

\* _callLocal from the response on
LocalResult(outcome) ==
    CASE outcome.kind = "ok" -> [ok |-> TRUE, value |-> outcome.text]
      [] outcome.kind = "http" /\ outcome.status = "403" ->
            [ok |-> FALSE,
             value |-> "CORS blocked by Ollama. Fix: Restart Ollama with CORS enabled:\n"
                          \o "OLLAMA_ORIGINS=\"chrome-extension://*\" ollama serve"]
      [] outcome.kind = "http" /\ outcome.status = "404" ->
            [ok |-> FALSE,
             value |-> "Model \"" \o OllamaDefaultModel \o "\" not found. Run: ollama pull "
                          \o OllamaDefaultModel]
      [] outcome.kind = "http" ->
            [ok |-> FALSE,
             value |-> "Ollama error: " \o outcome.status \o " - " \o ErrorBody]
      [] outcome.kind = "network" ->
            [ok |-> FALSE,
             value |-> "Cannot connect to Ollama. Make sure:\n"
                          \o "1. Ollama is running (ollama serve)\n"
                          \o "2. CORS is enabled: OLLAMA_ORIGINS=\"chrome-extension://*\" ollama serve"]
      [] OTHER -> [ok |-> TRUE, value |-> "No response from Ollama"]

\* _callProvider from the response on
ResponseResult(provider, outcome) ==
    IF provider = "local" THEN LocalResult(outcome)
    ELSE CloudResult(provider, outcome)

RECURSIVE Join(_, _)
\* Array.prototype.join
Join(lines, sep) ==
    IF lines = <<>> THEN ""
    ELSE IF Len(lines) = 1 THEN lines[1]
    ELSE lines[1] \o sep \o Join(Tail(lines), sep)

\* an aggregate message that keeps only the last failure
AggregateMessage_LastOnly(errors) ==
    "All AI providers failed:\n"
       \o "- " \o errors[Len(errors)].provider \o ": " \o errors[Len(errors)].error

\* the message of the error thrown when every provider has failed
AggregateMessage(errors) ==
    "All AI providers failed:\n"
       \o Join([i \in 1..Len(errors) |->
                  "- " \o errors[i].provider \o ": " \o errors[i].error], "\n")

\* console.log(`Attempting to generate summary using ${provider}...`)
Attempt(provider) == [ev |-> "attempt", provider |-> provider]

\* chrome.runtime.sendMessage(msg).catch(() => { })
SendEvent(msg) == [ev |-> "sendMessage", msg |-> msg]

\* {[field]: value, ...record}: the record's own field wins
Spread_RecordWins(record, field, value) ==
    [k \in (DOMAIN record) \cup {field} |->
        IF k \in DOMAIN record THEN record[k] ELSE value]

\* {...record, [field]: value}
Spread(record, field, value) ==
    [k \in (DOMAIN record) \cup {field} |-> IF k = field THEN value ELSE record[k]]

\* the result object a handler builds from the summary
BuildResult(c, l, summary, provider) ==
    IF c.op = "handleGetSummary"
      THEN [summary |-> summary,
            provider |-> provider,
            metadata |-> [title |-> l.md.title,
                          channel |-> l.md.channel,
                          hasTranscript |-> l.tr.available]]
      ELSE [summary |-> summary,
            provider |-> provider,
            metadata |-> [title |-> Str(OrElse(l.md.title, c.args.title)),
                          channel |-> l.md.channel,
                          hasTranscript |-> l.tr.available],
            fromCache |-> FALSE]

\* generateSummary returns {summary, provider} to its caller
CascadeReturns(t, c, summary, provider) ==
    /\ currentProvider' = provider
    /\ IF c.op = "generateSummary"
         THEN Continue(t, Settle(c, [summary |-> summary, provider |-> provider]),
                       "idle", NoLocals)
         ELSE Continue(t, c, "cache_write",
                       [result |-> BuildResult(c, loc[t], summary, provider)])

\* a handler that caches the error text as if it were a summary
CascadeThrows_ThenCaches(t, c, message) ==
    /\ UNCHANGED currentProvider
    /\ IF c.op = "generateSummary"
         THEN Continue(t, Settle(c, [rejected |-> message]), "idle", NoLocals)
         ELSE Continue(t, c, "cache_write",
                       [result |-> [summary |-> message, provider |-> "none"]])

\* generateSummary throws: its caller's catch block decides what follows
CascadeThrows(t, c, message) ==
    /\ UNCHANGED currentProvider
    /\ CASE c.op = "generateSummary" ->
              Continue(t, Settle(c, [rejected |-> message]), "idle", NoLocals)
         [] c.op = "handleGetSummary" ->
              Continue(t, Settle(c, [error |-> message]), "idle", NoLocals)
         [] OTHER ->
              Continue(t, Settle(Logged(c, SendEvent([action |-> "showError",
                                                      error |-> message])),
                                 Null),
                       "idle", NoLocals)

\* a cascade that gives every provider a second attempt
ProviderFailed_RetriesOnce(t, c, message) ==
    LET provider == Providers[loc[t].i]
        errors == Append(loc[t].errors, [provider |-> provider, error |-> message])
        c1 == Logged(c, [ev |-> "failed", provider |-> provider, error |-> message])
        retried == Len(Events(c.log, "failed")) >= loc[t].i
        next == IF retried THEN loc[t].i + 1 ELSE loc[t].i
    IN  IF next <= Len(Providers)
          THEN /\ UNCHANGED currentProvider
               /\ Continue(t, Logged(c1, Attempt(Providers[next])),
                           "provider_config",
                           [loc[t] EXCEPT !.i = next, !.errors = errors])
          ELSE CascadeThrows(t, c1, AggregateMessage(errors))

\* the catch block of the cascade loop, and the next iteration
ProviderFailed(t, c, message) ==
    LET provider == Providers[loc[t].i]
        errors == Append(loc[t].errors, [provider |-> provider, error |-> message])
        c1 == Logged(c, [ev |-> "failed", provider |-> provider, error |-> message])
    IN  IF loc[t].i < Len(Providers)
          THEN /\ UNCHANGED currentProvider
               /\ Continue(t, Logged(c1, Attempt(Providers[loc[t].i + 1])),
                           "provider_config",
                           [loc[t] EXCEPT !.i = @ + 1, !.errors = errors])
          ELSE CascadeThrows(t, c1, AggregateMessage(errors))

\* the locals of a cascade: the loop index, the errors, and for a handler
\* the transcript and metadata it fetched
CascadeLocals(tr, md) == [i |-> 1, errors |-> <<>>, tr |-> tr, md |-> md]

\* apiManager.generateSummary(transcript), called directly
GenerateSummary(t, transcript) ==
    /\ Begin(t, Logged(NewCall("generateSummary", [transcript |-> transcript]),
                       Attempt(Providers[1])),
             "provider_config", CascadeLocals(Null, Null))
    /\ UNCHANGED <<now, ticks, localStore, syncStore, currentProvider>>

\* a manager that keeps the settings it was constructed with
ProviderConfig_KeepsFirstSettings(t) ==
    /\ pc[t] = "provider_config"
    /\ LET provider == Providers[loc[t].i]
           first == [k \in DOMAIN syncStore |-> ""]
       IN
         IF MissingCredential(first, provider)
           THEN ProviderFailed(t, call[t], NotConfiguredMessage(provider))
           ELSE /\ Continue(t, Logged(call[t], [ev |-> "fetch", provider |-> provider]),
                            "provider_fetch", loc[t])
                /\ UNCHANGED currentProvider
    /\ UNCHANGED <<now, ticks, localStore, syncStore>>

\* _callProvider: the provider's settings are read, the request is sent
ProviderConfig(t) ==
    /\ pc[t] = "provider_config"
    /\ LET provider == Providers[loc[t].i] IN
         IF MissingCredential(syncStore, provider)
           THEN ProviderFailed(t, call[t], NotConfiguredMessage(provider))
           ELSE /\ Continue(t, Logged(call[t], [ev |-> "fetch", provider |-> provider]),
                            "provider_fetch", loc[t])
                /\ UNCHANGED currentProvider
    /\ UNCHANGED <<now, ticks, localStore, syncStore>>

\* _callProvider: the response arrives, or the request fails
ProviderFetch(t, outcome) ==
    /\ pc[t] = "provider_fetch"
    /\ LET provider == Providers[loc[t].i]
           result == ResponseResult(provider, outcome)
       IN  IF result.ok
             THEN CascadeReturns(t, call[t], result.value, provider)
             ELSE ProviderFailed(t, call[t], result.value)
    /\ UNCHANGED <<now, ticks, localStore, syncStore>>

(***************************************************************************)
(* options.js                                                              *)
(***************************************************************************)
\* saveSettings: refuses a form with no provider, else writes the settings
SaveSettings(settings) ==
    /\ ~( /\ settings.apiKey = ""
          /\ settings.openRouterApiKey = ""
          /\ settings.deepSeekApiKey = ""
          /\ settings.ollamaUrl = "" )
    /\ syncStore' = settings
    /\ UNCHANGED <<now, ticks, localStore, currentProvider, pc, call, loc>>

(***************************************************************************)
(* transcript-fetcher.js, as the handlers see it: what fetchTranscript and *)
(* fetchMetadata resolve to                                                *)
(***************************************************************************)
Pending == [type |-> "pending"]

TranscriptResults ==
    { [text |-> Str("Transcript text"), available |-> TRUE, source |-> Str("innertube")],
      [text |-> Null, available |-> FALSE, source |-> Null] }

MetadataResults ==
    { [title |-> Str("Video title"), channel |-> Str("Channel"),
       description |-> Str("Description")],
      [title |-> Null, channel |-> Null, description |-> Null] }

(***************************************************************************)
(* background.js                                                           *)
(***************************************************************************)
\* a configuration check that forgets the Ollama URL
HasProvider_NoOllama(settings) ==
    \/ settings.apiKey # ""
    \/ settings.openRouterApiKey # ""
    \/ settings.deepSeekApiKey # ""

\* checkProviderConfig
HasProvider(settings) ==
    \/ settings.apiKey # ""
    \/ settings.openRouterApiKey # ""
    \/ settings.deepSeekApiKey # ""
    \/ settings.ollamaUrl # ""

\* the title the context-menu listener passes when it tracked none
DefaultTitle == "YouTube Video"

\* the prompt generateAndShowSummary builds when there is no transcript
MetadataPrompt(md, title) ==
    "VIDEO TITLE: "
       \o OrElse(md.title, IF title # "" THEN title ELSE "Unknown video")
       \o "\nCHANNEL: " \o OrElse(md.channel, "")
       \o "\nDESCRIPTION: " \o OrElse(md.description, "")
       \o "\n\nNote: No transcript was available for this video. "
       \o "Please provide a summary based on the title and description above."

\* the text a handler hands to apiManager.generateSummary
ContentForAI(c, tr, md) ==
    IF c.op = "handleGetSummary" THEN tr.text
    ELSE IF TruthyStr(tr.text) /\ tr.available THEN tr.text
    ELSE Str(MetadataPrompt(md, c.args.title))

NotConfiguredError == "No API providers configured"

NotConfiguredPanelError ==
    "No AI provider configured. Please set up Gemini, DeepSeek, or Ollama in extension settings."

\* a legacy handler that reports a cache hit as fresh
GetSummaryHit_Fresh(cached) ==
    [success |-> TRUE, data |-> cached, fromCache |-> FALSE, provider |-> cached.provider]

\* handleGetSummary's response on a cache hit
GetSummaryHit(cached) ==
    [success |-> TRUE, data |-> cached, fromCache |-> TRUE, provider |-> cached.provider]

\* a handler whose sendMessage has no catch: without a listener in the side
\* panel the call ends rejected
Respond_RejectsUnheard(c, response, message) ==
    IF c.op = "handleGetSummary" THEN Settle(c, response)
    ELSE IF pc["t2"] = "listening" THEN Settle(Logged(c, SendEvent(message)), Null)
    ELSE Settle(Logged(c, SendEvent(message)),
                [rejected |-> "Could not establish connection. Receiving end does not exist."])

\* what a handler does once it has its answer: handleGetSummary returns it,
\* generateAndShowSummary sends it to the side panel and returns nothing
Respond(c, response, message) ==
    IF c.op = "handleGetSummary" THEN Settle(c, response)
    ELSE Settle(Logged(c, SendEvent(message)), Null)

\* the message handler receives getSummary
HandleGetSummary(t, videoId) ==
    /\ Begin(t, NewCall("handleGetSummary", [videoId |-> videoId]),
             "check_config", NoLocals)
    /\ UNCHANGED <<now, ticks, localStore, syncStore, currentProvider>>

\* the context-menu listener calls generateAndShowSummary(videoId, title)
GenerateAndShowSummary(t, videoId, title) ==
    /\ Begin(t, NewCall("generateAndShowSummary", [videoId |-> videoId, title |-> title]),
             "check_config", NoLocals)
    /\ UNCHANGED <<now, ticks, localStore, syncStore, currentProvider>>

\* a handler that returns without a word when no provider is configured
CheckConfig_SilentExit(t) ==
    /\ pc[t] = "check_config"
    /\ LET has == HasProvider(syncStore)
           c1 == Logged(call[t], [ev |-> "sync.get", hasProvider |-> has])
       IN  IF has
             THEN Continue(t, c1, "cache_read", NoLocals)
             ELSE Continue(t, Settle(c1, Null), "idle", NoLocals)
    /\ UNCHANGED <<now, ticks, localStore, syncStore, currentProvider>>

\* await checkProviderConfig(), and the not-configured exit
CheckConfig(t) ==
    /\ pc[t] = "check_config"
    /\ LET has == HasProvider(syncStore)
           c1 == Logged(call[t], [ev |-> "sync.get", hasProvider |-> has])
       IN  IF has
             THEN Continue(t, c1, "cache_read", NoLocals)
             ELSE Continue(t,
                           Respond(c1,
                                   [error |-> NotConfiguredError, needsSetup |-> TRUE],
                                   [action |-> "showError",
                                    error |-> NotConfiguredPanelError]),
                           "idle", NoLocals)
    /\ UNCHANGED <<now, ticks, localStore, syncStore, currentProvider>>

\* the message of the error a failed chrome.storage.sync.get rejects with
SettingsReadError == "Error reading settings"

\* await checkProviderConfig() rejects: the catch block of the handler answers
CheckConfigFails(t) ==
    /\ pc[t] = "check_config"
    /\ Continue(t,
                Respond(Logged(call[t], [ev |-> "sync.get", failed |-> TRUE]),
                        [error |-> SettingsReadError],
                        [action |-> "showError", error |-> SettingsReadError]),
                "idle", NoLocals)
    /\ UNCHANGED <<now, ticks, localStore, syncStore, currentProvider>>

\* Promise.all([fetchTranscript(videoId), fetchMetadata(videoId)]) is started
StartFetch(t, c) ==
    Continue(t, Logged(Logged(c, [ev |-> "fetchTranscript"]), [ev |-> "fetchMetadata"]),
             "fetching", CascadeLocals(Pending, Pending))

\* await cache.get(videoId): the storage read, the expiry test, the hit exit
RequestCacheRead(t, ok) ==
    /\ pc[t] = "cache_read"
    /\ LET out == GetOutcome(localStore, CacheKey(call[t].args.videoId), now, ok)
           c1 == Logged(call[t], [ev |-> "local.get", ok |-> ok])
       IN  IF out.kind = "delete"
             THEN Continue(t, c1, "cache_delete", NoLocals)
             ELSE IF out.value # Null
               THEN Continue(t,
                             Respond(c1,
                                     GetSummaryHit(out.value),
                                     [action |-> "showSummary",
                                      data |-> Spread(out.value, "fromCache", TRUE)]),
                             "idle", NoLocals)
               ELSE StartFetch(t, c1)
    /\ UNCHANGED <<now, ticks, localStore, syncStore, currentProvider>>

\* await cache.get(videoId), expired entry: the removal, then the miss path
RequestCacheDelete(t, ok) ==
    /\ pc[t] = "cache_delete"
    /\ StartFetch(t, Logged(call[t], [ev |-> "local.remove", ok |-> ok]))
    /\ localStore' = IF ok
                       THEN StoreRemove(localStore, {CacheKey(call[t].args.videoId)})
                       ELSE localStore
    /\ UNCHANGED <<now, ticks, syncStore, currentProvider>>

\* both fetches have settled: the handler calls apiManager.generateSummary
StartCascade(t, c, l) ==
    Continue(t,
             Logged(Logged(c, [ev |-> "generateSummary",
                               input |-> ContentForAI(c, l.tr, l.md),
                               transcript |-> l.tr, metadata |-> l.md]),
                    Attempt(Providers[1])),
             "provider_config", l)

\* a handler that starts the cascade as soon as the transcript is there
TranscriptSettles_DoesNotWait(t, tr) ==
    /\ pc[t] = "fetching"
    /\ loc[t].tr = Pending
    /\ LET none == [title |-> Null, channel |-> Null, description |-> Null]
           l == [loc[t] EXCEPT !.tr = tr, !.md = IF @ = Pending THEN none ELSE @]
       IN  StartCascade(t, call[t], l)
    /\ UNCHANGED <<now, ticks, localStore, syncStore, currentProvider>>

\* fetchTranscript settles
TranscriptSettles(t, tr) ==
    /\ pc[t] = "fetching"
    /\ loc[t].tr = Pending
    /\ LET l == [loc[t] EXCEPT !.tr = tr]
       IN  IF l.md = Pending THEN Continue(t, call[t], "fetching", l)
           ELSE StartCascade(t, call[t], l)
    /\ UNCHANGED <<now, ticks, localStore, syncStore, currentProvider>>

\* fetchMetadata settles
MetadataSettles(t, md) ==
    /\ pc[t] = "fetching"
    /\ loc[t].md = Pending
    /\ LET l == [loc[t] EXCEPT !.md = md]
       IN  IF l.tr = Pending THEN Continue(t, call[t], "fetching", l)
           ELSE StartCascade(t, call[t], l)
    /\ UNCHANGED <<now, ticks, localStore, syncStore, currentProvider>>

\* a handler whose cache write is not guarded: a failed write reaches the
\* catch block of the handler
RequestCacheWrite_Propagates(t, ok) ==
    /\ pc[t] = "cache_write"
    /\ LET result == loc[t].result
           key == CacheKey(call[t].args.videoId)
           c1 == Logged(call[t], [ev |-> "local.set", ok |-> ok])
       IN  /\ Continue(t,
                       IF ok
                         THEN Respond(c1,
                                      [success |-> TRUE, data |-> result,
                                       fromCache |-> FALSE, provider |-> result.provider],
                                      [action |-> "showSummary", data |-> result])
                         ELSE Respond(c1,
                                      [error |-> "storage failure"],
                                      [action |-> "showError", error |-> "storage failure"]),
                       "idle", NoLocals)
           /\ localStore' = IF ok
                              THEN StorePut(localStore, key,
                                            NewEntry(result, now, TtlOrDefault(<<>>)))
                              ELSE localStore
    /\ UNCHANGED <<now, ticks, syncStore, currentProvider>>

\* await cache.set(videoId, result), and the answer
RequestCacheWrite(t, ok) ==
    /\ pc[t] = "cache_write"
    /\ LET result == loc[t].result
           key == CacheKey(call[t].args.videoId)
           c1 == Logged(call[t], [ev |-> "local.set", ok |-> ok])
       IN  /\ Continue(t,
                       Respond(c1,
                               [success |-> TRUE, data |-> result, fromCache |-> FALSE,
                                provider |-> result.provider],
                               [action |-> "showSummary", data |-> result]),
                       "idle", NoLocals)
           /\ localStore' = IF ok
                              THEN StorePut(localStore, key,
                                            NewEntry(result, now, TtlOrDefault(<<>>)))
                              ELSE localStore
    /\ UNCHANGED <<now, ticks, syncStore, currentProvider>>

(***************************************************************************)
(* Initial state: the service worker has constructed its managers, the     *)
(* settings are those of a fresh install, no summary is cached.            *)
(***************************************************************************)
NoSettings ==
    [apiKey |-> "", openRouterApiKey |-> "", deepSeekApiKey |-> "", ollamaUrl |-> ""]

Init ==
    /\ now = MS_PER_HOUR
    /\ ticks = 0
    /\ localStore = <<>>
    /\ syncStore = NoSettings
    /\ currentProvider = "null"
    /\ pc = [t \in Tasks |-> "idle"]
    /\ call = [t \in Tasks |-> NoCall]
    /\ loc = [t \in Tasks |-> NoLocals]

(***************************************************************************)
(* SpecCache: one caller uses the cache, one operation at a time           *)
(***************************************************************************)
CacheCaller == "t1"

NextCache ==
    \/ \E id \in VideoIds, ok \in BOOLEAN : CacheGet(CacheCaller, id, ok)
    \/ \E ok \in BOOLEAN : CacheGetDelete(CacheCaller, ok)
    \/ \E id \in VideoIds, d \in SampleData, ttl \in TtlArgs, ok \in BOOLEAN :
          CacheSet(CacheCaller, id, d, ttl, ok)
    \/ \E id \in VideoIds, ok \in BOOLEAN : CacheDelete(CacheCaller, id, ok)
    \/ \E ok \in BOOLEAN : CacheClear(CacheCaller, ok)
    \/ \E ok \in BOOLEAN : CacheClearRemove(CacheCaller, ok)
    \/ \E ok \in BOOLEAN : CacheGetStats(CacheCaller, ok)
    \/ \E d \in TickSteps : Tick(d)

SpecCache == Init /\ [][NextCache]_vars

(***************************************************************************)
(* SpecCascade: one caller runs generateSummary, again and again, while    *)
(* the options page may save new settings at any moment                    *)
(***************************************************************************)
CascadeInputs == {Str("Transcript text")}

CascadeOutcomes ==
    {Ok("Summary one"), Http("404"), NetworkError, Malformed}

NextCascade ==
    \/ \E text \in CascadeInputs : GenerateSummary(CacheCaller, text)
    \/ ProviderConfig(CacheCaller)
    \/ \E o \in CascadeOutcomes : ProviderFetch(CacheCaller, o)
    \/ \E s \in SettingsSpace : SaveSettings(s)

SpecCascade == Init /\ [][NextCascade]_vars

(***************************************************************************)
(* Spec: the service worker serves summary requests from the tooltip       *)
(* (getSummary) and from the context menu, one after the other, while time *)
(* passes and settings are saved from the options page                     *)
(***************************************************************************)
\* the task that serves the requests, and what it is asked
RequestTasks == {"t1"}
RequestIds == {"abc123"}

RequestOutcomes == {Ok("Summary one"), Http("500")}

\* the settings saved while requests are served: Gemini alone, Ollama alone
RequestSettings ==
    {s \in SettingsSpace :
        /\ s.openRouterApiKey = "" /\ s.deepSeekApiKey = ""
        /\ (s.apiKey = "") # (s.ollamaUrl = "")}

\* clock advances that expire every entry written before them
RequestTickSteps == {(DEFAULT_TTL_HOURS * MS_PER_HOUR) + 1}

Next ==
    \/ \E t \in RequestTasks, id \in RequestIds : HandleGetSummary(t, id)
    \/ \E t \in RequestTasks, id \in RequestIds : GenerateAndShowSummary(t, id, DefaultTitle)
    \/ \E t \in RequestTasks : CheckConfig(t)
    \/ \E t \in RequestTasks : CheckConfigFails(t)
    \/ \E t \in RequestTasks, ok \in BOOLEAN : RequestCacheRead(t, ok)
    \/ \E t \in RequestTasks, ok \in BOOLEAN : RequestCacheDelete(t, ok)
    \/ \E t \in RequestTasks, tr \in TranscriptResults : TranscriptSettles(t, tr)
    \/ \E t \in RequestTasks, md \in MetadataResults : MetadataSettles(t, md)
    \/ \E t \in RequestTasks : ProviderConfig(t)
    \/ \E t \in RequestTasks, o \in RequestOutcomes : ProviderFetch(t, o)
    \/ \E t \in RequestTasks, ok \in BOOLEAN : RequestCacheWrite(t, ok)
    \/ \E s \in RequestSettings : SaveSettings(s)
    \/ \E d \in RequestTickSteps : Tick(d)

Spec == Init /\ [][Next]_vars


(***************************************************************************)
(* JavaScript strings                                                      *)
(***************************************************************************)
\* the characters \s matches, of those that occur here
IsSpace(ch) == ch \in {" ", "\n", "\t"}

RECURSIVE TrimStart(_)
TrimStart(s) ==
    IF s = "" THEN ""
    ELSE IF IsSpace(SubSeq(s, 1, 1)) THEN TrimStart(SubSeq(s, 2, Len(s)))
    ELSE s

RECURSIVE TrimEnd(_)
TrimEnd(s) ==
    IF s = "" THEN ""
    ELSE IF IsSpace(SubSeq(s, Len(s), Len(s))) THEN TrimEnd(SubSeq(s, 1, Len(s) - 1))
    ELSE s

\* String.prototype.trim
Trim(s) == TrimEnd(TrimStart(s))

RECURSIVE ReplaceAll(_, _, _)
\* s.replace(/pattern/g, replacement) for a literal, non-empty pattern
ReplaceAll(s, pattern, replacement) ==
    IF Len(s) < Len(pattern) THEN s
    ELSE IF SubSeq(s, 1, Len(pattern)) = pattern
      THEN replacement \o ReplaceAll(SubSeq(s, Len(pattern) + 1, Len(s)), pattern, replacement)
    ELSE SubSeq(s, 1, 1) \o ReplaceAll(SubSeq(s, 2, Len(s)), pattern, replacement)

RECURSIVE CollapseSpaces(_)
\* s.replace(/\s+/g, ' ')
CollapseSpaces(s) ==
    IF s = "" THEN ""
    ELSE IF IsSpace(SubSeq(s, 1, 1))
      THEN " " \o CollapseSpaces(TrimStart(s))
    ELSE SubSeq(s, 1, 1) \o CollapseSpaces(SubSeq(s, 2, Len(s)))

\* text || null
OrNull(text) == IF text # "" THEN Str(text) ELSE Null

(***************************************************************************)
(* transcript-fetcher.js.  The fetcher reads and writes no state of the    *)
(* service worker, so a call is one action: the responses it will receive  *)
(* are its input.                                                          *)
(***************************************************************************)
\* a response that arrived with a 2xx status and this body
Body(b) == [kind |-> "ok", body |-> b]

\* a JavaScript array
Arr(items) == [type |-> "array", items |-> items]

\* a caption track of the player response
Track(languageCode, kind, baseUrl) ==
    [languageCode |-> languageCode, kind |-> kind, baseUrl |-> baseUrl]

\* an order of the tests that prefers any manual track to an en-prefixed one
TrackTests_ManualFirst ==
    <<"enManual", "enAuto", "manual", "enPrefixManual", "enPrefix", "any">>

\* the priorities array of _selectBestTrack
TrackTests ==
    <<"enManual", "enAuto", "enPrefixManual", "enPrefix", "manual", "any">>

\* t.languageCode?.startsWith('en')
LanguageStartsWithEn(t) ==
    t.languageCode # Null /\ StartsWith(t.languageCode.value, "en")

\* the arrow functions of the priorities array
TrackTest(test, t) ==
    CASE test = "enManual" -> t.languageCode = Str("en") /\ t.kind # Str("asr")
      [] test = "enAuto" -> t.languageCode = Str("en") /\ t.kind = Str("asr")
      [] test = "enPrefixManual" -> LanguageStartsWithEn(t) /\ t.kind # Str("asr")
      [] test = "enPrefix" -> LanguageStartsWithEn(t)
      [] test = "manual" -> t.kind # Str("asr")
      [] OTHER -> TRUE

\* tracks.find(test): the index of the first track that passes, 0 if none
FindTrack(tracks, test) ==
    LET passing == {i \in 1..Len(tracks) : TrackTest(test, tracks[i])}
    IN  IF passing = {} THEN 0
        ELSE CHOOSE i \in passing : \A j \in passing : i <= j

RECURSIVE SelectFrom(_, _)
\* the loop of _selectBestTrack, from the k-th test on
SelectFrom(tracks, k) ==
    IF k > Len(TrackTests) THEN tracks[1]
    ELSE IF FindTrack(tracks, TrackTests[k]) # 0
      THEN tracks[FindTrack(tracks, TrackTests[k])]
    ELSE SelectFrom(tracks, k + 1)

\* _selectBestTrack
SelectBestTrack(tracks) ==
    IF tracks = Null THEN Null
    ELSE IF Len(tracks.items) = 0 THEN Null
    ELSE SelectFrom(tracks.items, 1)

\* _parseTranscriptJson: the texts pushed for a list of segments
SegTexts(segs) ==
    LET trimmed == [i \in 1..Len(segs) |-> Trim(segs[i])]
    IN  SelectSeq(trimmed, LAMBDA text : text # "" /\ text # "\n")

RECURSIVE EventTexts(_)
\* _parseTranscriptJson: the texts pushed for a list of events
EventTexts(events) ==
    IF events = <<>> THEN <<>>
    ELSE SegTexts(events[1]) \o EventTexts(Tail(events))

\* _parseTranscriptJson: data is the parsed body, null when the body is the
\* JSON value null; an event is the list of the utf8 values of its segs
ParseTranscriptJson(data) ==
    IF data = Null THEN Null
    ELSE OrNull(Trim(CollapseSpaces(Join(EventTexts(data.events), " "))))

\* _parseTranscriptXml: the text kept for the content of one <text> element
DecodeText(content) ==
    Trim(ReplaceAll(
           ReplaceAll(
             ReplaceAll(
               ReplaceAll(
                 ReplaceAll(
                   ReplaceAll(content, "&amp;", "&"),
                   "&lt;", "<"),
                 "&gt;", ">"),
               "&quot;", "\""),
             "&#39;", "'"),
           "\n", " "))

\* _parseTranscriptXml: xml is the list of the contents of the <text>
\* elements the regular expression finds
ParseTranscriptXml(xml) ==
    LET decoded == [i \in 1..Len(xml) |-> DecodeText(xml[i])]
        texts == SelectSeq(decoded, LAMBDA text : text # "")
    IN  OrNull(Trim(CollapseSpaces(Join(texts, " "))))

\* a _fetchViaInnertube that gives up after a non-ok json3 answer
FetchViaInnertube_NoXmlRetry(env) ==
    IF env.player.kind # "ok" THEN Null
    ELSE IF env.player.body = Null THEN Null
    ELSE LET captionTracks == env.player.body.captionTracks
             selectedTrack == SelectBestTrack(captionTracks)
         IN  IF captionTracks = Null THEN Null
             ELSE IF Len(captionTracks.items) = 0 THEN Null
             ELSE IF selectedTrack.baseUrl = Null THEN Null
             ELSE IF env.json3.kind = "ok" THEN ParseTranscriptJson(env.json3.body)
             ELSE Null

\* _fetchViaInnertube: the transcript, or null
FetchViaInnertube(env) ==
    IF env.player.kind # "ok" THEN Null
    ELSE IF env.player.body = Null THEN Null
    ELSE LET captionTracks == env.player.body.captionTracks
             selectedTrack == SelectBestTrack(captionTracks)
         IN  IF captionTracks = Null THEN Null
             ELSE IF Len(captionTracks.items) = 0 THEN Null
             ELSE IF selectedTrack.baseUrl = Null THEN Null
             ELSE IF env.json3.kind = "network" THEN Null
             ELSE IF env.json3.kind = "malformed" THEN Null
             ELSE IF env.json3.kind = "ok" THEN ParseTranscriptJson(env.json3.body)
             ELSE IF env.xml.kind = "ok" THEN ParseTranscriptXml(env.xml.body)
             ELSE Null

\* fetch(url), as a call's log records it
FetchEvent(url) == [ev |-> "fetch", url |-> url]

PlayerUrl == "https://www.youtube.com/youtubei/v1/player"
Json3Suffix == "&fmt=json3"

\* the requests _fetchViaInnertube issues, in order: the player request, the
\* json3 request for the selected track and, after a non-ok answer to it,
\* the request of the bare track URL
InnertubeRequests(env) ==
    IF env.player.kind # "ok" THEN <<FetchEvent(PlayerUrl)>>
    ELSE IF env.player.body = Null THEN <<FetchEvent(PlayerUrl)>>
    ELSE LET captionTracks == env.player.body.captionTracks
             selectedTrack == SelectBestTrack(captionTracks)
         IN  IF captionTracks = Null THEN <<FetchEvent(PlayerUrl)>>
             ELSE IF Len(captionTracks.items) = 0 THEN <<FetchEvent(PlayerUrl)>>
             ELSE IF selectedTrack.baseUrl = Null THEN <<FetchEvent(PlayerUrl)>>
             ELSE IF env.json3.kind = "http"
               THEN <<FetchEvent(PlayerUrl),
                      FetchEvent(selectedTrack.baseUrl.value \o Json3Suffix),
                      FetchEvent(selectedTrack.baseUrl.value)>>
             ELSE <<FetchEvent(PlayerUrl),
                    FetchEvent(selectedTrack.baseUrl.value \o Json3Suffix)>>

\* _fetchFromVideoPage: the transcript, or null; the page is what
\* _extractCaptionUrl and _extractFromHtml find in its HTML
FetchFromVideoPage(env) ==
    IF env.page.kind # "ok" THEN Null
    ELSE IF env.page.body.captionUrl = Null THEN Null
    ELSE IF env.caption.kind # "ok" THEN Null
    ELSE ParseTranscriptXml(env.caption.body)

\* a fetchTranscript that reports a missing transcript as available
TranscriptMissing_Available ==
    [text |-> Null, available |-> TRUE, source |-> Null]

\* the result of fetchTranscript when no method found a transcript
TranscriptMissing ==
    [text |-> Null, available |-> FALSE, source |-> Null]

\* a fetchTranscript that prefers the text scraped from the page
FetchTranscriptResult_ScrapeFirst(env) ==
    LET innertube == FetchViaInnertube(env)
        scraped == FetchFromVideoPage(env)
    IN  IF TruthyStr(scraped)
          THEN [text |-> scraped, available |-> TRUE, source |-> Str("page_scrape")]
        ELSE IF TruthyStr(innertube)
          THEN [text |-> innertube, available |-> TRUE, source |-> Str("innertube")]
        ELSE TranscriptMissing

\* fetchTranscript
FetchTranscriptResult(env) ==
    LET innertube == FetchViaInnertube(env)
        scraped == FetchFromVideoPage(env)
    IN  IF TruthyStr(innertube)
          THEN [text |-> innertube, available |-> TRUE, source |-> Str("innertube")]
        ELSE IF TruthyStr(scraped)
          THEN [text |-> scraped, available |-> TRUE, source |-> Str("page_scrape")]
        ELSE TranscriptMissing

WatchUrl(videoId) == "https://www.youtube.com/watch?v=" \o videoId

\* the requests _fetchFromVideoPage issues, in order
PageRequests(videoId, env) ==
    IF env.page.kind # "ok" THEN <<FetchEvent(WatchUrl(videoId))>>
    ELSE IF env.page.body.captionUrl = Null THEN <<FetchEvent(WatchUrl(videoId))>>
    ELSE <<FetchEvent(WatchUrl(videoId)), FetchEvent(env.page.body.captionUrl.value)>>

\* the requests fetchTranscript issues, in order: the second method runs
\* when the first returned nothing truthy
FetchTranscriptRequests(videoId, env) ==
    IF TruthyStr(FetchViaInnertube(env)) THEN InnertubeRequests(env)
    ELSE InnertubeRequests(env) \o PageRequests(videoId, env)

\* v || null, for a string-or-null v
ValueOrNull(v) == IF TruthyStr(v) THEN v ELSE Null

\* a page fallback without its catch block: the failure reaches the caller
PageMetadataFailed_Rejects == [rejected |-> "Failed to fetch"]

\* what _fetchMetadataFromPage returns from its catch block
PageMetadataFailed ==
    [title |-> Null, channel |-> Null, description |-> Null]

\* _fetchMetadataFromPage
FetchMetadataFromPage(env) ==
    IF env.page.kind # "ok" THEN PageMetadataFailed
    ELSE [title |-> env.page.body.title,
          channel |-> env.page.body.author,
          description |-> env.page.body.description,
          duration |-> Null,
          viewCount |-> Null]

\* the longest description fetchMetadata keeps
DescriptionLimit == 500

\* s?.substring(0, n), for a string-or-null s
Substring(s, n) ==
    IF s = Null THEN Null
    ELSE Str(SubSeq(s.value, 1, IF Len(s.value) < n THEN Len(s.value) ELSE n))

\* fetchMetadata
FetchMetadataResult(env) ==
    IF env.player.kind # "ok" THEN FetchMetadataFromPage(env)
    ELSE IF env.player.body = Null THEN FetchMetadataFromPage(env)
    ELSE LET videoDetails == env.player.body.videoDetails IN
         IF videoDetails = Null
           THEN [title |-> Null, channel |-> Null, description |-> Null,
                 duration |-> Null, viewCount |-> Null]
           ELSE [title |-> ValueOrNull(videoDetails.title),
                 channel |-> ValueOrNull(videoDetails.author),
                 description |->
                    ValueOrNull(Substring(videoDetails.shortDescription, DescriptionLimit)),
                 duration |-> ValueOrNull(videoDetails.lengthSeconds),
                 viewCount |-> ValueOrNull(videoDetails.viewCount)]

(***************************************************************************)
(* SpecFetcher: one call of the transcript fetcher, with every combination *)
(* of responses, or of _selectBestTrack, with every short list of tracks   *)
(***************************************************************************)
\* the longest list of caption tracks
MaxTracks == 3

TrackLanguages == {Str("en"), Str("en-GB"), Str("fr"), Null}
TrackKinds == {Str("asr"), Null}

\* the lists of caption tracks; the baseUrl of a track tells its position
TrackLists ==
    UNION { [1..n -> TrackLanguages \X TrackKinds] : n \in 1..MaxTracks }

TracksOf(list) ==
    Arr([i \in 1..Len(list) |->
           Track(list[i][1], list[i][2],
                 Str("https://www.youtube.com/api/timedtext?track=" \o ToString(i)))])

\* the player responses a transcript fetch meets
PlayerCaptionBodies ==
    { Null,
      [captionTracks |-> Null],
      [captionTracks |-> Arr(<<>>)],
      [captionTracks |-> Arr(<<Track(Str("en"), Str("asr"), Null)>>)],
      [captionTracks |->
          Arr(<<Track(Str("fr"), Str("asr"), Str("https://www.youtube.com/api/timedtext?v=fr")),
                Track(Str("en"), Null, Str("https://www.youtube.com/api/timedtext?v=en"))>>)] }

PlayerCaptionResponses ==
    {NetworkError, Http("500"), Malformed} \cup {Body(b) : b \in PlayerCaptionBodies}

Json3Bodies ==
    { Null,
      [events |-> <<>>],
      [events |-> << <<" ", "\n", "">> >>],
      [events |-> << <<"Hello", " world\n">>, <<>>, <<"again \n and  again">> >>] }

Json3Responses ==
    {NetworkError, Http("404"), Malformed} \cup {Body(b) : b \in Json3Bodies}

XmlBodies ==
    { <<>>,
      <<" ", "\n">>,
      <<"Tom &amp; Jerry", " say\n&quot;hi&quot; ">> }

XmlResponses == {NetworkError, Http("404")} \cup {Body(b) : b \in XmlBodies}

PageBodies ==
    { [captionUrl |-> Null, title |-> Null, author |-> Null, description |-> Null],
      [captionUrl |-> Str("https://www.youtube.com/api/timedtext?v=abc123"),
       title |-> Str("Video title"), author |-> Str("Channel"),
       description |-> Null] }

PageResponses == {NetworkError} \cup {Body(b) : b \in PageBodies}

TranscriptEnvs ==
    [player : PlayerCaptionResponses, json3 : Json3Responses, xml : XmlResponses,
     page : PageResponses, caption : XmlResponses]

\* the player responses a metadata fetch meets
PlayerDetailBodies ==
    { Null,
      [videoDetails |-> Null],
      [videoDetails |-> [title |-> Str("Video title"), author |-> Str("Channel"),
                         shortDescription |-> Str("Description"),
                         lengthSeconds |-> Str("212"), viewCount |-> Str("1000")]],
      [videoDetails |-> [title |-> Str("Video title"), author |-> Str(""),
                         shortDescription |-> Null,
                         lengthSeconds |-> Null, viewCount |-> Null]] }

MetadataEnvs ==
    [player : {NetworkError, Http("500"), Malformed}
                 \cup {Body(b) : b \in PlayerDetailBodies},
     page : PageResponses]

\* a call that has been made and has not run yet
Called(c) ==
    /\ now = MS_PER_HOUR
    /\ ticks = 0
    /\ localStore = <<>>
    /\ syncStore = NoSettings
    /\ currentProvider = "null"
    /\ pc = [t \in Tasks |-> IF t = CacheCaller THEN "called" ELSE "idle"]
    /\ call = [t \in Tasks |-> IF t = CacheCaller THEN c ELSE NoCall]
    /\ loc = [t \in Tasks |-> NoLocals]

\* the call returns value
Return(t, value) ==
    /\ Continue(t, Settle(call[t], value), "idle", NoLocals)
    /\ UNCHANGED <<now, ticks, localStore, syncStore, currentProvider>>

InitFetcher ==
    \/ \E env \in TranscriptEnvs :
          Called(NewCall("fetchTranscript", [videoId |-> "abc123", env |-> env]))
    \/ \E env \in MetadataEnvs :
          Called(NewCall("fetchMetadata", [videoId |-> "abc123", env |-> env]))
    \/ \E list \in TrackLists :
          Called(NewCall("_selectBestTrack", [tracks |-> TracksOf(list)]))

\* fetchTranscript(videoId) runs, with the responses of the call
FetchTranscript(t) ==
    /\ pc[t] = "called"
    /\ call[t].op = "fetchTranscript"
    /\ Continue(t, Settle([call[t] EXCEPT !.log =
                                FetchTranscriptRequests(call[t].args.videoId,
                                                        call[t].args.env)],
                           FetchTranscriptResult(call[t].args.env)),
                "idle", NoLocals)
    /\ UNCHANGED <<now, ticks, localStore, syncStore, currentProvider>>

\* fetchMetadata(videoId) runs, with the responses of the call
FetchMetadata(t) ==
    /\ pc[t] = "called"
    /\ call[t].op = "fetchMetadata"
    /\ Return(t, FetchMetadataResult(call[t].args.env))

\* _selectBestTrack(tracks) runs
CallSelectBestTrack(t) ==
    /\ pc[t] = "called"
    /\ call[t].op = "_selectBestTrack"
    /\ Return(t, SelectBestTrack(call[t].args.tracks))

NextFetcher ==
    \/ FetchTranscript(CacheCaller)
    \/ FetchMetadata(CacheCaller)
    \/ CallSelectBestTrack(CacheCaller)

SpecFetcher == InitFetcher /\ [][NextFetcher]_vars

(***************************************************************************)
(* gemini-api.js: _parseResponse.  The regular expressions are modelled on  *)
(* the characters of the text: where the first match starts, what the       *)
(* capture group holds, how the lines of the capture are trimmed, filtered  *)
(* and stripped.                                                           *)
(***************************************************************************)
\* String.prototype.toLowerCase on the letters A to Z
LowerOf ==
    [A |-> "a", B |-> "b", C |-> "c", D |-> "d", E |-> "e", F |-> "f",
     G |-> "g", H |-> "h", I |-> "i", J |-> "j", K |-> "k", L |-> "l",
     M |-> "m", N |-> "n", O |-> "o", P |-> "p", Q |-> "q", R |-> "r",
     S |-> "s", T |-> "t", U |-> "u", V |-> "v", W |-> "w", X |-> "x",
     Y |-> "y", Z |-> "z"]

\* one character, lower-cased (the i flag of the regular expressions)
LowerChar(ch) == IF ch \in DOMAIN LowerOf THEN LowerOf[ch] ELSE ch

RECURSIVE LowerCase(_)
LowerCase(s) ==
    IF s = "" THEN ""
    ELSE LowerChar(SubSeq(s, 1, 1)) \o LowerCase(SubSeq(s, 2, Len(s)))

\* the least element of a non-empty set of numbers
Least(S) == CHOOSE x \in S : \A y \in S : x <= y

\* the first position >= i at which the literal pattern occurs in s, in any
\* letter case; 0 when there is none
IndexFrom(s, pattern, i) ==
    LET hits == {j \in i..(Len(s) - Len(pattern) + 1) :
                    /\ LowerChar(SubSeq(s, j, j)) = SubSeq(pattern, 1, 1)
                    /\ LowerCase(SubSeq(s, j, j + Len(pattern) - 1)) = pattern}
    IN  IF hits = {} THEN 0 ELSE Least(hits)

\* s.substring(i - 1): the characters of s from position i on
From(s, i) == SubSeq(s, i, Len(s))

RECURSIVE LeadingSpaces(_)
\* how many characters a greedy \s* consumes at the start of s
LeadingSpaces(s) ==
    IF s = "" THEN 0
    ELSE IF IsSpace(SubSeq(s, 1, 1)) THEN 1 + LeadingSpaces(SubSeq(s, 2, Len(s)))
    ELSE 0

\* the positions of the line ends of s
LineEnds(s) == {i \in 1..Len(s) : SubSeq(s, i, i) = "\n"}

\* s.split('\n'): the lines of s, as a sequence of one-element records so
\* that an empty line is a value of the same kind as any other
Split(s) ==
    LET ends == LineEnds(s)
        \* the position of the k-th line end; 0 and Len(s) + 1 bracket the text
        EndAt(k) == IF k = 0 THEN 0
                    ELSE IF k > Cardinality(ends) THEN Len(s) + 1
                    ELSE CHOOSE p \in ends : Cardinality({q \in ends : q < p}) = k - 1
    IN  [k \in 1..(Cardinality(ends) + 1) |->
            [line |-> SubSeq(s, EndAt(k - 1) + 1, EndAt(k) - 1)]]

\* .map(line => line.trim())
TrimLines(lines) == [i \in 1..Len(lines) |-> [line |-> Trim(lines[i].line)]]

\* the bullet characters of /^[-*\u2022]\s/ that a string of this module can
\* hold: the hyphen and the asterisk
BulletMarkers == {"-", "*"}
Digits == {"0", "1", "2", "3", "4", "5", "6", "7", "8", "9"}

\* line.match(/^[-*\u2022]\s/)
IsBullet(line) ==
    /\ Len(line) >= 2
    /\ SubSeq(line, 1, 1) \in BulletMarkers
    /\ IsSpace(SubSeq(line, 2, 2))

\* line.replace(/^[-*\u2022]\s+/, '')
StripBullet(line) ==
    IF IsBullet(line) THEN TrimStart(SubSeq(line, 2, Len(line))) ELSE line

RECURSIVE LeadingDigits(_)
LeadingDigits(s) ==
    IF s = "" THEN 0
    ELSE IF SubSeq(s, 1, 1) \in Digits THEN 1 + LeadingDigits(SubSeq(s, 2, Len(s)))
    ELSE 0

\* line.match(/^\d+\./)
IsNumbered(line) ==
    LET d == LeadingDigits(line)
    IN  d >= 1 /\ Len(line) > d /\ SubSeq(line, d + 1, d + 1) = "."

\* a replace whose pattern ends at the dot
StripNumber_DotOnly(line) ==
    LET d == LeadingDigits(line)
    IN  IF IsNumbered(line) THEN TrimStart(SubSeq(line, d + 2, Len(line)))
        ELSE line

\* line.replace(/^\d+\.\s+/, ''): nothing is removed unless white space
\* follows the dot
StripNumber(line) ==
    LET d == LeadingDigits(line)
    IN  IF IsNumbered(line) /\ Len(line) > d + 1 /\ IsSpace(SubSeq(line, d + 2, d + 2))
        THEN TrimStart(SubSeq(line, d + 2, Len(line)))
        ELSE line

\* the texts of the lines that pass a filter, stripped
BulletsOf(lines) ==
    LET kept == SelectSeq(lines, LAMBDA l : IsBullet(l.line))
    IN  [i \in 1..Len(kept) |-> StripBullet(kept[i].line)]

NumberedOf(lines) ==
    LET kept == SelectSeq(lines, LAMBDA l : IsNumbered(l.line))
    IN  [i \in 1..Len(kept) |-> StripNumber(kept[i].line)]

MaxSummaryBullets == 8
MaxTakeaways == 3

\* a slice that keeps everything
Slice_All(items, n) == items

\* items.slice(0, n)
Slice(items, n) == SubSeq(items, 1, IF Len(items) < n THEN Len(items) ELSE n)

\* a result whose lists start as null
InitialResult_NullLists(hasTranscript) ==
    [summary |-> Null, takeaways |-> Null, disclaimer |-> Null,
     hasTranscript |-> hasTranscript]

\* const result = { summary: [], takeaways: [], disclaimer: null, hasTranscript }
InitialResult(hasTranscript) ==
    [summary |-> Arr(<<>>), takeaways |-> Arr(<<>>), disclaimer |-> Null,
     hasTranscript |-> hasTranscript]

\* the first line of s: the characters before the first "\n"
FirstLine(s) == Split(s)[1].line

RECURSIVE LastNonNewline(_, _)
\* the last position <= k of s that holds a character other than "\n"; 0
\* when there is none
LastNonNewline(s, k) ==
    IF k = 0 THEN 0
    ELSE IF SubSeq(s, k, k) # "\n" THEN k
    ELSE LastNonNewline(s, k - 1)

\* a match whose capture cannot leave the line of the marker
DisclaimerOf_StopsAtLineEnd(text) ==
    LET p == IndexFrom(text, "disclaimer:", 1)
        rest == FirstLine(From(text, p + Len("disclaimer:")))
    IN  IF p = 0 THEN Null
        ELSE IF Trim(rest) = "" THEN Null
        ELSE Str(Trim(rest))

\* text.match(/DISCLAIMER:\s*(.+?)(?:\n|$)/i), then match[1].trim(): \s* is
\* greedy and crosses line ends, the capture is the rest of the line it
\* stops in; when only white space follows the marker, \s* gives back
\* characters until the capture can start on a blank other than "\n"
DisclaimerOf(text) ==
    LET p == IndexFrom(text, "disclaimer:", 1)
        rest == From(text, p + Len("disclaimer:"))
        k == LeadingSpaces(rest)
    IN  IF p = 0 THEN Null
        ELSE IF k < Len(rest) THEN Str(Trim(FirstLine(From(rest, k + 1))))
        ELSE IF LastNonNewline(rest, k) = 0 THEN Null
        ELSE Str("")

\* text.match(/SUMMARY:\s*([\s\S]*?)(?=TAKEAWAYS:|$)/i): the capture runs
\* from the first non-blank character after the first "summary:" to the
\* first "takeaways:" behind it, or to the end of the text
SummarySection(text) ==
    LET p == IndexFrom(text, "summary:", 1)
        rest == From(text, p + Len("summary:"))
        body == From(rest, LeadingSpaces(rest) + 1)
        q == IndexFrom(body, "takeaways:", 1)
    IN  IF p = 0 THEN Null
        ELSE IF q = 0 THEN Str(body)
        ELSE Str(SubSeq(body, 1, q - 1))

\* text.match(/TAKEAWAYS:\s*([\s\S]*?)$/i): everything behind the first
\* "takeaways:"
TakeawaysSection(text) ==
    LET p == IndexFrom(text, "takeaways:", 1)
        rest == From(text, p + Len("takeaways:"))
    IN  IF p = 0 THEN Null
        ELSE Str(From(rest, LeadingSpaces(rest) + 1))

\* _parseResponse(text, hasTranscript)
ParseResponse(text, hasTranscript) ==
    LET result == InitialResult(hasTranscript)
        summarySection == SummarySection(text)
        takeawaysSection == TakeawaysSection(text)
        bullets == BulletsOf(TrimLines(Split(summarySection.value)))
        takeaways == NumberedOf(TrimLines(Split(takeawaysSection.value)))
        disclaimerMatch == DisclaimerOf(text)
    IN  [result EXCEPT
            !.disclaimer = IF disclaimerMatch = Null THEN @ ELSE disclaimerMatch,
            !.summary = IF summarySection = Null THEN @
                        ELSE Arr(Slice(bullets, MaxSummaryBullets)),
            !.takeaways = IF takeawaysSection = Null THEN @
                          ELSE Arr(Slice(takeaways, MaxTakeaways))]

(***************************************************************************)
(* The responses the parser is run on: an optional disclaimer line, an     *)
(* optional SUMMARY: header followed by a line of prose and bullet lines,  *)
(* an optional TAKEAWAYS: header followed by numbered lines.               *)
(***************************************************************************)
\* the marker with its text on the same line, alone on its line with the
\* text on the next, and inside a sentence
DisclaimerLines ==
    { <<>>,
      <<"DISCLAIMER: Based on the title only.", "">>,
      <<"DISCLAIMER:", "Based on the title only.", "">>,
      <<"Please read this disclaimer: title only.", "">> }
SummaryHeaders == {<<>>, <<"SUMMARY:">>, <<"Summary:", "The video covers:">>}
BulletCounts == {0, 3, 8, 10}
\* plain bullets, or a second bullet whose own text reads "takeaways:"
BulletStyles == {"plain", "mentionsTakeaways"}
TakeawayHeaders == {<<>>, <<"", "TAKEAWAYS:">>}
TakeawayCounts == {0, 3, 5}

BulletLine(k, style) ==
    IF style = "mentionsTakeaways" /\ k = 2
    THEN "- Key takeaways: point " \o ToString(k)
    ELSE (IF k % 2 = 0 THEN "* " ELSE "-  ") \o "point " \o ToString(k)

NumberedLine(k) ==
    ToString(k) \o (IF k = 2 THEN "." ELSE ". ") \o "insight " \o ToString(k)

ResponseText(d, sh, nb, style, th, nt) ==
    Join(d \o sh \o [k \in 1..nb |-> BulletLine(k, style)]
           \o th \o [k \in 1..nt |-> NumberedLine(k)], "\n")

ResponseTexts ==
    {ResponseText(d, sh, nb, style, th, nt) :
        d \in DisclaimerLines, sh \in SummaryHeaders, nb \in BulletCounts,
        style \in BulletStyles, th \in TakeawayHeaders, nt \in TakeawayCounts}

InitParser ==
    \E text \in ResponseTexts, hasTranscript \in BOOLEAN :
        Called(NewCall("_parseResponse",
                       [text |-> text, hasTranscript |-> hasTranscript]))

\* _parseResponse(text, hasTranscript) runs
CallParseResponse(t) ==
    /\ pc[t] = "called"
    /\ call[t].op = "_parseResponse"
    /\ Return(t, ParseResponse(call[t].args.text, call[t].args.hasTranscript))

NextParser == CallParseResponse(CacheCaller)

SpecParser == InitParser /\ [][NextParser]_vars

(***************************************************************************)
(* api-manager.js: testProviders.  Every provider is called in turn with a *)
(* sample transcript; the loop body catches whatever the call throws.      *)
(***************************************************************************)
\* const testTranscript
TestTranscript == "This is a test video about machine learning and artificial intelligence."

TestSummaryLimit == 100

\* summary.substring(0, 100) + '...'
TestSummary(summary) ==
    SubSeq(summary, 1, IF Len(summary) < TestSummaryLimit THEN Len(summary)
                       ELSE TestSummaryLimit) \o "..."

\* results.push({provider, status: 'success', summary})
TestSuccess(provider, summary) ==
    [provider |-> provider, status |-> "success", summary |-> TestSummary(summary)]

\* results.push({provider, status: 'failed', error: error.message})
TestFailure(provider, message) ==
    [provider |-> provider, status |-> "failed", error |-> message]

\* this._callProvider(provider, testTranscript) is called
CallProvider(provider, transcript) ==
    [ev |-> "callProvider", provider |-> provider, transcript |-> transcript]

\* a loop that returns what it has at the first failure
TestPush_StopsAtFailure(t, c, entry) ==
    LET results == Append(loc[t].results, entry)
    IN  IF loc[t].i < Len(Providers) /\ entry.status = "success"
          THEN Continue(t, Logged(c, CallProvider(Providers[loc[t].i + 1], TestTranscript)),
                        "test_config", [i |-> loc[t].i + 1, results |-> results])
          ELSE Continue(t, Settle(c, Arr(results)), "idle", NoLocals)

\* results.push(entry), then the next iteration, or return results
TestPush(t, c, entry) ==
    LET results == Append(loc[t].results, entry)
    IN  IF loc[t].i < Len(Providers)
          THEN Continue(t, Logged(c, CallProvider(Providers[loc[t].i + 1], TestTranscript)),
                        "test_config", [i |-> loc[t].i + 1, results |-> results])
          ELSE Continue(t, Settle(c, Arr(results)), "idle", NoLocals)

\* apiManager.testProviders(), up to the storage read of the first provider
TestProviders(t) ==
    /\ Begin(t, Logged(NewCall("testProviders", [none |-> TRUE]),
                       CallProvider(Providers[1], TestTranscript)),
             "test_config", [i |-> 1, results |-> <<>>])
    /\ UNCHANGED <<now, ticks, localStore, syncStore, currentProvider>>

\* _callProvider: the provider's settings are read (ok) or the read fails;
\* without its credential the provider throws, else the request is sent
TestProviderConfig(t, ok) ==
    /\ pc[t] = "test_config"
    /\ LET provider == Providers[loc[t].i] IN
         IF ~ok
           THEN TestPush(t, call[t], TestFailure(provider, SettingsReadError))
         ELSE IF MissingCredential(syncStore, provider)
           THEN TestPush(t, call[t], TestFailure(provider, NotConfiguredMessage(provider)))
         ELSE Continue(t, Logged(call[t], [ev |-> "fetch", provider |-> provider]),
                       "test_fetch", loc[t])
    /\ UNCHANGED <<now, ticks, localStore, syncStore, currentProvider>>

\* _callProvider: the response arrives, or the request fails
TestProviderFetch(t, outcome) ==
    /\ pc[t] = "test_fetch"
    /\ LET provider == Providers[loc[t].i]
           result == ResponseResult(provider, outcome)
       IN  IF result.ok
             THEN TestPush(t, call[t], TestSuccess(provider, result.value))
             ELSE TestPush(t, call[t], TestFailure(provider, result.value))
    /\ UNCHANGED <<now, ticks, localStore, syncStore, currentProvider>>

\* a provider answer longer than the part of it testProviders keeps
LongAnswer ==
    "This video introduces machine learning, explains how neural networks are "
        \o "trained on data, and closes with a survey of current applications of AI."

TestOutcomes == {Ok("Summary one"), Ok(LongAnswer), Http("500"), Malformed}

NextTest ==
    \/ TestProviders(CacheCaller)
    \/ \E ok \in BOOLEAN : TestProviderConfig(CacheCaller, ok)
    \/ \E o \in TestOutcomes : TestProviderFetch(CacheCaller, o)
    \/ \E s \in SettingsSpace : SaveSettings(s)

SpecTest == Init /\ [][NextTest]_vars

(***************************************************************************)
(* context-menu-helper.js: the side panel and its history.  The panel is   *)
(* task PanelTask: pc is "idle" while the panel is closed, "load_history"  *)
(* while init awaits loadHistory, "listening" once the message listener is *)
(* registered.  Its locals hold the variable recentSummaries and the       *)
(* chrome.storage.local.set calls issued but not yet carried out; its log  *)
(* records every summary shown, over all the times the panel was open.     *)
(***************************************************************************)
PanelTask == "t2"
HISTORY_KEY == "recentSummaries"

HistoryLimit == 10
MaxShown == 11
MaxPending == 2

\* what the background sends with showSummary
PanelData == {[summary |-> "Summary one", provider |-> "gemini"]}

\* a history that appends the new entry and so keeps the oldest ones
AddToHistory_KeepsOldest(list, data, at) ==
    Slice(Append(list, Spread(data, "timestamp", at)), HistoryLimit)

\* addToHistory up to its await: unshift({...data, timestamp}), slice(0, 10)
AddToHistory(list, data, at) ==
    Slice(<<Spread(data, "timestamp", at)>> \o list, HistoryLimit)

\* what showSummary renders of data, and when
Shown(data, at) ==
    [ev |-> "shown", summary |-> data.summary, provider |-> data.provider, at |-> at]

\* result.recentSummaries || []
StoredHistory(store) ==
    IF HISTORY_KEY \in DOMAIN store THEN store[HISTORY_KEY] ELSE <<>>

\* what is left of a loadHistory whose storage read was rejected: the error
\* on the console
StorageFailed == [error |-> "storage failure"]

PanelLocals(list, writes) == [recentSummaries |-> list, writes |-> writes]

\* the set calls of a panel that is or was open
PendingWrites(t) == IF loc[t] = NoLocals THEN <<>> ELSE loc[t].writes

\* the side panel is opened: init calls loadHistory
PanelOpened(t) ==
    /\ pc[t] = "idle"
    /\ call' = [call EXCEPT ![t] =
                  IF call[t].op = "sidePanel" THEN call[t]
                  ELSE NewCall("sidePanel", [none |-> TRUE])]
    /\ pc' = [pc EXCEPT ![t] = "load_history"]
    /\ loc' = [loc EXCEPT ![t] = PanelLocals(<<>>, PendingWrites(t))]
    /\ UNCHANGED <<now, ticks, localStore, syncStore, currentProvider>>

\* loadHistory: the storage read answers, after the writes issued before it,
\* or fails; then init registers the message listener
LoadHistory(t, ok) ==
    /\ pc[t] = "load_history"
    /\ loc[t].writes = <<>>
    /\ IF ok
         THEN Continue(t, call[t], "listening",
                       [loc[t] EXCEPT !.recentSummaries = StoredHistory(localStore)])
         ELSE Continue(t, Settle(call[t], StorageFailed), "listening", loc[t])
    /\ UNCHANGED <<now, ticks, localStore, syncStore, currentProvider>>

\* showSummary(data), which ends in addToHistory(data) up to its await
ShowInPanel(t, data) ==
    /\ pc[t] = "listening"
    /\ Len(Events(call[t].log, "shown")) < MaxShown
    /\ Len(loc[t].writes) < MaxPending
    /\ LET list == AddToHistory(loc[t].recentSummaries, data, now)
       IN  Continue(t, Logged(call[t], Shown(data, now)),
                    "listening",
                    PanelLocals(list, Append(loc[t].writes, list)))
    /\ UNCHANGED <<now, ticks, localStore, syncStore, currentProvider>>

\* the showSummary message of the background arrives
ShowSummary(t, data) == ShowInPanel(t, data)

\* showHistoryItem(index): a click on an entry of the history list
ShowHistoryItem(t, index) ==
    /\ pc[t] = "listening"
    /\ index \in 1..Len(loc[t].recentSummaries)
    /\ ShowInPanel(t, loc[t].recentSummaries[index])

\* the oldest chrome.storage.local.set({recentSummaries}) is carried out
HistoryWritten(t) ==
    /\ PendingWrites(t) # <<>>
    /\ localStore' = StorePut(localStore, HISTORY_KEY, Head(loc[t].writes))
    /\ loc' = [loc EXCEPT ![t].writes = Tail(@)]
    /\ UNCHANGED <<now, ticks, syncStore, currentProvider, pc, call>>

\* the side panel is closed: its variables are gone, its writes are not
PanelClosed(t) ==
    /\ pc[t] = "listening"
    /\ pc' = [pc EXCEPT ![t] = "idle"]
    /\ loc' = [loc EXCEPT ![t] = PanelLocals(<<>>, loc[t].writes)]
    /\ UNCHANGED <<now, ticks, localStore, syncStore, currentProvider, call>>

NextPanel ==
    \/ PanelOpened(PanelTask)
    \/ \E ok \in BOOLEAN : LoadHistory(PanelTask, ok)
    \/ \E data \in PanelData : ShowSummary(PanelTask, data)
    \/ \E index \in {1, HistoryLimit} : ShowHistoryItem(PanelTask, index)
    \/ HistoryWritten(PanelTask)
    \/ PanelClosed(PanelTask)
    \/ Tick(1)

SpecPanel == Init /\ [][NextPanel]_vars

(***************************************************************************)
(* content.js: the hover tooltip.  The content script of a page is task    *)
(* ContentTask, pc "page" once init has run.  Its locals are the script's  *)
(* variables hoverTimer (0 for null) and currentVideoId ("" for null), the *)
(* tooltip's isVisible, the timers set and not yet fired or cleared, and   *)
(* the getSummary messages not yet answered, and whether the pointer is    *)
(* inside a thumbnail (a mouseleave follows a mouseenter; a thumbnail that *)
(* is removed while hovered gets none).  Hovers are numbered as they       *)
(* begin, and the log tells for every request and every tooltip content    *)
(* which hover's timer caused it.                                          *)
(***************************************************************************)
ContentTask == "t1"
HOVER_DELAY_MS == 500
MaxHovers == 3

\* what extractVideoId finds in the thumbnail entered: an id, or "" for null
HoverTargets == VideoIds \cup {""}

\* the answers of the background to getSummary, and a rejected sendMessage
HoverResponses == {"success", "error", "rejected"}

ContentLocals ==
    [hoverTimer |-> 0, timers |-> {}, currentVideoId |-> "", isVisible |-> FALSE,
     requests |-> {}, hovers |-> 0, inside |-> FALSE]

\* init: the tooltip is created and the listeners are attached
ContentInit(t) ==
    /\ Begin(t, NewCall("contentScript", [none |-> TRUE]), "page", ContentLocals)
    /\ UNCHANGED <<now, ticks, localStore, syncStore, currentProvider>>

\* clearTimeout(id)
ClearTimeout(timers, id) == {tm \in timers : tm.id # id}

\* handleMouseEnter on a thumbnail whose link holds videoId
HandleMouseEnter(t, videoId) ==
    /\ pc[t] = "page"
    /\ loc[t].hovers < MaxHovers
    /\ LET hover == loc[t].hovers + 1
           c == Logged(call[t], [ev |-> "enter", hover |-> hover, at |-> now])
       IN  IF videoId = ""
             THEN Continue(t, c, "page",
                           [loc[t] EXCEPT !.hovers = hover, !.inside = TRUE])
             ELSE Continue(t, c, "page",
                    [loc[t] EXCEPT
                       !.hovers = hover,
                       !.inside = TRUE,
                       !.hoverTimer = hover,
                       !.timers = ClearTimeout(@, loc[t].hoverTimer)
                                    \cup {[id |-> hover, videoId |-> videoId,
                                           due |-> now + HOVER_DELAY_MS]}])
    /\ UNCHANGED <<now, ticks, localStore, syncStore, currentProvider>>

\* a mouseleave handler that hides the tooltip but leaves the timer running
HandleMouseLeave_KeepsTimer(t) ==
    /\ pc[t] = "page"
    /\ loc[t].inside
    /\ Continue(t, Logged(call[t], [ev |-> "leave", hover |-> loc[t].hovers, at |-> now]),
                "page",
                [loc[t] EXCEPT !.inside = FALSE, !.isVisible = FALSE,
                               !.currentVideoId = ""])
    /\ UNCHANGED <<now, ticks, localStore, syncStore, currentProvider>>

\* handleMouseLeave: the pointer leaves the thumbnail it entered last
HandleMouseLeave(t) ==
    /\ pc[t] = "page"
    /\ loc[t].inside
    /\ Continue(t, Logged(call[t], [ev |-> "leave", hover |-> loc[t].hovers, at |-> now]),
                "page",
                [loc[t] EXCEPT
                   !.inside = FALSE,
                   !.timers = ClearTimeout(@, loc[t].hoverTimer),
                   !.hoverTimer = 0,
                   !.isVisible = FALSE,
                   !.currentVideoId = ""])
    /\ UNCHANGED <<now, ticks, localStore, syncStore, currentProvider>>

\* a timer whose delay has elapsed fires: showSummary up to its await
HoverTimerFires(t) ==
    /\ pc[t] = "page"
    /\ \E tm \in loc[t].timers :
          /\ tm.due <= now
          /\ IF loc[t].currentVideoId = tm.videoId /\ loc[t].isVisible
               THEN Continue(t, call[t], "page",
                             [loc[t] EXCEPT !.timers = @ \ {tm}])
               ELSE Continue(t,
                      Logged(Logged(call[t], [ev |-> "tooltip", hover |-> tm.id,
                                              kind |-> "loading"]),
                             [ev |-> "request", hover |-> tm.id, videoId |-> tm.videoId]),
                      "page",
                      [loc[t] EXCEPT
                         !.timers = @ \ {tm},
                         !.currentVideoId = tm.videoId,
                         !.isVisible = TRUE,
                         !.requests = @ \cup {[hover |-> tm.id, videoId |-> tm.videoId]}])
    /\ UNCHANGED <<now, ticks, localStore, syncStore, currentProvider>>

\* a showSummary that renders every answer, whatever is hovered by then
HoverResponse_ShowsStale(t, response) ==
    /\ pc[t] = "page"
    /\ \E rq \in loc[t].requests :
          Continue(t, Logged(call[t], [ev |-> "tooltip", hover |-> rq.hover,
                                       kind |-> response]),
                   "page",
                   [loc[t] EXCEPT !.requests = @ \ {rq}, !.isVisible = TRUE])
    /\ UNCHANGED <<now, ticks, localStore, syncStore, currentProvider>>

\* showSummary from its await on: the answer to a getSummary message
HoverResponse(t, response) ==
    /\ pc[t] = "page"
    /\ \E rq \in loc[t].requests :
          IF loc[t].currentVideoId # rq.videoId
            THEN Continue(t, call[t], "page", [loc[t] EXCEPT !.requests = @ \ {rq}])
            ELSE Continue(t, Logged(call[t], [ev |-> "tooltip", hover |-> rq.hover,
                                              kind |-> response]),
                          "page",
                          [loc[t] EXCEPT !.requests = @ \ {rq}, !.isVisible = TRUE])
    /\ UNCHANGED <<now, ticks, localStore, syncStore, currentProvider>>

NextHover ==
    \/ ContentInit(ContentTask)
    \/ \E v \in HoverTargets : HandleMouseEnter(ContentTask, v)
    \/ HandleMouseLeave(ContentTask)
    \/ HoverTimerFires(ContentTask)
    \/ \E r \in HoverResponses : HoverResponse(ContentTask, r)
    \/ \E d \in {1, HOVER_DELAY_MS} : Tick(d)

SpecHover == Init /\ [][NextHover]_vars
(***************************************************************************)
(* SpecCacheRace: one caller reads the cache with get while another writes *)
(* it with set; the storage calls of the two interleave freely             *)
(***************************************************************************)
CacheReader == "t1"
CacheWriter == "t2"

NextCacheRace ==
    \/ \E id \in RequestIds, ok \in BOOLEAN : CacheGet(CacheReader, id, ok)
    \/ \E ok \in BOOLEAN : CacheGetDelete(CacheReader, ok)
    \/ \E id \in RequestIds, d \in SampleData, ttl \in TtlArgs, ok \in BOOLEAN :
          CacheSet(CacheWriter, id, d, ttl, ok)
    \/ \E d \in TickSteps : Tick(d)

SpecCacheRace == Init /\ [][NextCacheRace]_vars

(***************************************************************************)
(* SpecTwoRequests: the tooltips of two tabs each send one getSummary for  *)
(* the same video, which was never cached; the service worker runs the two *)
(* handlers interleaved at their awaits                                    *)
(***************************************************************************)
ConcurrentTasks == {"t1", "t2"}

\* the first getSummary message of a tab
FirstRequest(t, videoId) ==
    /\ call[t] = NoCall
    /\ HandleGetSummary(t, videoId)

NextTwoRequests ==
    \/ \E t \in ConcurrentTasks, id \in RequestIds : FirstRequest(t, id)
    \/ \E t \in ConcurrentTasks : CheckConfig(t)
    \/ \E t \in ConcurrentTasks, ok \in BOOLEAN : RequestCacheRead(t, ok)
    \/ \E t \in ConcurrentTasks, tr \in TranscriptResults : TranscriptSettles(t, tr)
    \/ \E t \in ConcurrentTasks, md \in MetadataResults : MetadataSettles(t, md)
    \/ \E t \in ConcurrentTasks : ProviderConfig(t)
    \/ \E t \in ConcurrentTasks, o \in RequestOutcomes : ProviderFetch(t, o)
    \/ \E t \in ConcurrentTasks, ok \in BOOLEAN : RequestCacheWrite(t, ok)
    \/ \E s \in RequestSettings : SaveSettings(s)
    \/ Tick(1)

SpecTwoRequests == Init /\ [][NextTwoRequests]_vars

(***************************************************************************)
(* background.js: the context-menu listener.  A click on "Summarize"       *)
(* begins a call "onClicked", which opens the side panel, sends            *)
(* showLoading and then runs generateAndShowSummary inside the same call.  *)
(***************************************************************************)
\* what extractVideoId finds in info.linkUrl, and the id tracked by
\* setContextMenuVideo: "" for null
NoVideoError ==
    "Could not detect video. Try right-clicking directly on a video thumbnail."

PanelOpenError == "sidePanel.open failed"

\* the listener from its click to await chrome.sidePanel.open, or to the
\* showError of a click in which no video is found
MenuClicked(t, linkId, trackedId) ==
    LET videoId == IF linkId # "" THEN linkId ELSE trackedId
        c == NewCall("onClicked", [videoId |-> videoId, title |-> DefaultTitle])
    IN  /\ IF videoId # ""
             THEN Begin(t, c, "panel_open", NoLocals)
             ELSE Begin(t,
                        Settle(Logged(c, SendEvent([action |-> "showError",
                                                    error |-> NoVideoError])),
                               Null),
                        "idle", NoLocals)
        /\ UNCHANGED <<now, ticks, localStore, syncStore, currentProvider>>

\* the panel is open and the delay is over: showLoading is sent and
\* generateAndShowSummary runs to its first await; or sidePanel.open rejects
PanelReady(t, ok) ==
    /\ pc[t] = "panel_open"
    /\ IF ok
         THEN Continue(t,
                       Logged(call[t], SendEvent([action |-> "showLoading",
                                                  title |-> call[t].args.title])),
                       "check_config", NoLocals)
         ELSE Continue(t, Settle(call[t], [rejected |-> PanelOpenError]),
                       "idle", NoLocals)
    /\ UNCHANGED <<now, ticks, localStore, syncStore, currentProvider>>

(***************************************************************************)
(* SpecMenu: clicks on the context menu, one request at a time, while the  *)
(* side panel is opened and closed and settings are saved                  *)
(***************************************************************************)
MenuTask == "t1"
LinkIds == {"", "abc123"}
TrackedIds == {"", "abc123"}

NextMenu ==
    \/ \E l \in LinkIds, k \in TrackedIds : MenuClicked(MenuTask, l, k)
    \/ \E ok \in BOOLEAN : PanelReady(MenuTask, ok)
    \/ CheckConfig(MenuTask)
    \/ CheckConfigFails(MenuTask)
    \/ \E ok \in BOOLEAN : RequestCacheRead(MenuTask, ok)
    \/ \E tr \in TranscriptResults : TranscriptSettles(MenuTask, tr)
    \/ \E md \in MetadataResults : MetadataSettles(MenuTask, md)
    \/ ProviderConfig(MenuTask)
    \/ \E o \in RequestOutcomes : ProviderFetch(MenuTask, o)
    \/ \E ok \in BOOLEAN : RequestCacheWrite(MenuTask, ok)
    \/ \E s \in RequestSettings : SaveSettings(s)
    \/ PanelOpened(PanelTask)
    \/ \E ok \in BOOLEAN : LoadHistory(PanelTask, ok)
    \/ PanelClosed(PanelTask)

SpecMenu == Init /\ [][NextMenu]_vars

(***************************************************************************)
(* SpecTwoMenus: a click for one video, and while its request is in flight *)
(* a click for another video                                               *)
(***************************************************************************)
EarlierClick == "t1"
LaterClick == "t2"

\* the click for the first video
FirstClick(t, videoId) ==
    /\ call[EarlierClick] = NoCall
    /\ call[LaterClick] = NoCall
    /\ MenuClicked(t, videoId, "")

\* the click for the second video, while the first request is in flight
SecondClick(t, videoId) ==
    /\ call[LaterClick] = NoCall
    /\ pc[EarlierClick] \notin {"idle", "panel_open"}
    /\ MenuClicked(t, videoId, "")

NextTwoMenus ==
    \/ FirstClick(EarlierClick, "abc123")
    \/ SecondClick(LaterClick, "xyz789")
    \/ \E t \in ConcurrentTasks, ok \in BOOLEAN : PanelReady(t, ok)
    \/ \E t \in ConcurrentTasks : CheckConfig(t)
    \/ \E t \in ConcurrentTasks, ok \in BOOLEAN : RequestCacheRead(t, ok)
    \/ \E t \in ConcurrentTasks, tr \in TranscriptResults : TranscriptSettles(t, tr)
    \/ \E t \in ConcurrentTasks, md \in MetadataResults : MetadataSettles(t, md)
    \/ \E t \in ConcurrentTasks : ProviderConfig(t)
    \/ \E t \in ConcurrentTasks, o \in RequestOutcomes : ProviderFetch(t, o)
    \/ \E t \in ConcurrentTasks, ok \in BOOLEAN : RequestCacheWrite(t, ok)
    \/ \E s \in RequestSettings : SaveSettings(s)

SpecTwoMenus == Init /\ [][NextTwoMenus]_vars


(***************************************************************************)
(* SpecClear: the cache is filled and cleared by one task while the side   *)
(* panel, the other task, shows summaries and stores its history under     *)
(* recentSummaries in the same chrome.storage.local area                   *)
(***************************************************************************)
NextClear ==
    \/ \E id \in VideoIds, d \in PanelData :
          CacheSet(CacheCaller, id, d, <<>>, TRUE)
    \/ \E ok \in BOOLEAN : CacheClear(CacheCaller, ok)
    \/ \E ok \in BOOLEAN : CacheClearRemove(CacheCaller, ok)
    \/ PanelOpened(PanelTask)
    \/ \E ok \in BOOLEAN : LoadHistory(PanelTask, ok)
    \/ \E data \in PanelData : ShowSummary(PanelTask, data)
    \/ HistoryWritten(PanelTask)
    \/ PanelClosed(PanelTask)

SpecClear == Init /\ [][NextClear]_vars
(***************************************************************************)
(* Properties of SummaryCache, checked under SpecCache.  They are stated   *)
(* for storage calls that succeed; what the cache does when the storage    *)
(* layer fails is a separate property.                                     *)
(***************************************************************************)
\* the video ids that have an entry in store
CachedIds(store) == {id \in VideoIds : CacheKey(id) \in DOMAIN store}

\* C7: a get before expiresAt returns the stored data and leaves the entry
\* in place; a get after expiresAt returns null and the entry is gone from
\* storage afterwards; no get returns the data of an expired entry.
C7_GetHonoursExpiry ==
    [][\A t \in Tasks :
        /\ ( /\ pc[t] = "idle"
             /\ call'[t].op = "get"
             /\ call'[t].args.videoId \in CachedIds(localStore)
             /\ CacheGet(t, call'[t].args.videoId, TRUE) )
           => LET key == CacheKey(call'[t].args.videoId)
                  entry == localStore[key]
              IN  /\ now < entry.expiresAt =>
                        /\ pc'[t] = "idle"
                        /\ call'[t].ret = entry.data
                        /\ key \in DOMAIN localStore'
                        /\ localStore'[key] = entry
                  /\ now > entry.expiresAt =>
                        /\ pc'[t] = "get_delete"
                        /\ call'[t].ret = Null
        /\ CacheGetDelete(t, TRUE) =>
              /\ pc'[t] = "idle"
              /\ call'[t].ret = Null
              /\ CacheKey(call[t].args.videoId) \notin DOMAIN localStore'
       ]_vars

\* C7 witness: a get found an expired entry, removed it and returned null
C7_Witness ==
    /\ pc["t1"] = "idle"
    /\ call["t1"].op = "get"
    /\ Len(call["t1"].log) = 2
    /\ call["t1"].log[2].ok
    /\ call["t1"].ret = Null
    /\ CacheKey(call["t1"].args.videoId) \notin DOMAIN localStore

\* C8: set(id, data) immediately followed by get(id) returns data
C8_SetGetRoundTrip ==
    [][\A t \in Tasks :
        ( /\ pc[t] = "idle"
          /\ call[t].op = "set"
          /\ call[t].args.ttlHours = <<>>
          /\ call[t].log[1].ok
          /\ call[t].log[1].at = now
          /\ CacheGet(t, call[t].args.videoId, TRUE) )
        => ( /\ pc'[t] = "idle"
             /\ call'[t].ret = call[t].args.data )
       ]_vars

\* C8 witness: a get returned the data of an entry that was set at the
\* instant of the get
C8_Witness ==
    /\ pc["t1"] = "idle"
    /\ call["t1"].op = "get"
    /\ call["t1"].log[1].ok
    /\ call["t1"].ret \in SampleData
    /\ localStore[CacheKey(call["t1"].args.videoId)].cachedAt = call["t1"].log[1].at

\* C9: clear removes every entry of the cache's key namespace and returns
\* how many it removed; a get of any video id right after it returns null
C9_ClearRemovesAll ==
    [][\A t \in Tasks :
        /\ CacheClear(t, TRUE) =>
              \/ pc'[t] = "clear_remove" /\ CachedIds(localStore) # {}
              \/ pc'[t] = "idle" /\ CachedIds(localStore) = {}
                   /\ call'[t].ret = 0
        /\ CacheClearRemove(t, TRUE) =>
              /\ pc'[t] = "idle"
              /\ CachedIds(localStore') = {}
              /\ call'[t].ret = Cardinality(CachedIds(localStore))
        /\ \A id \in VideoIds :
              ( /\ pc[t] = "idle"
                /\ call[t].op = "clear"
                /\ \A i \in 1..Len(call[t].log) : call[t].log[i].ok
                /\ CacheGet(t, id, TRUE) )
              => ( pc'[t] = "idle" /\ call'[t].ret = Null )
       ]_vars

\* C9 witness: a clear removed two entries and left none
C9_Witness ==
    /\ pc["t1"] = "idle"
    /\ call["t1"].op = "clear"
    /\ call["t1"].ret = 2
    /\ CachedIds(localStore) = {}

\* C10: set(id, data, ttlHours) leaves exactly one entry for id, the new
\* one: its data is data and its expiresAt is the time of the set plus
\* ttlHours hours, 168 hours when ttlHours is omitted; nothing of the entry
\* it replaced remains, and the entries of other ids are untouched
C10_SetOverwrites ==
    [][\A t \in Tasks :
        ( /\ pc[t] = "idle"
          /\ call'[t].op = "set"
          /\ CacheSet(t, call'[t].args.videoId, call'[t].args.data,
                      call'[t].args.ttlHours, TRUE) )
        =>
          LET id == call'[t].args.videoId
              d == call'[t].args.data
              ttl == call'[t].args.ttlHours
              hours == IF ttl = <<>> THEN 168 ELSE ttl[1] IN
          /\ DOMAIN localStore' = (DOMAIN localStore) \cup {CacheKey(id)}
          /\ localStore'[CacheKey(id)] =
                [data |-> d, expiresAt |-> now + (hours * 3600000), cachedAt |-> now]
          /\ \A k \in (DOMAIN localStore) \ {CacheKey(id)} :
                localStore'[k] = localStore[k]
          /\ Cardinality({k \in DOMAIN localStore' :
                            StartsWith(k, CACHE_PREFIX)
                            /\ SubSeq(k, Len(CACHE_PREFIX) + 1, Len(k)) = id}) = 1
       ]_vars

\* C10 witness: a set with the default time to live replaced an entry that
\* held other data
C10_Witness ==
    /\ pc["t1"] = "idle"
    /\ call["t1"].op = "set"
    /\ call["t1"].args.ttlHours = <<>>
    /\ call["t1"].log[1].ok
    /\ call["t1"].log[1].had
    /\ call["t1"].log[1].at > MS_PER_HOUR
    /\ localStore[CacheKey(call["t1"].args.videoId)].data = call["t1"].args.data
    /\ localStore[CacheKey(call["t1"].args.videoId)].cachedAt = now

(***************************************************************************)
(* Properties of the provider cascade, checked under SpecCascade           *)
(***************************************************************************)
\* the providers named by the events of kind ev in a log, in order
ProvidersOf(log, ev) ==
    LET es == Events(log, ev) IN [i \in 1..Len(es) |-> es[i].provider]

\* C1: generateSummary attempts the providers in the order gemini,
\* openrouter, deepseek, local and stops at the first that succeeds: the
\* provider it returns is the last one attempted, every provider before it
\* was attempted and failed, and none after it was attempted
C1_CascadeOrder ==
    \A t \in Tasks :
      call[t].op = "generateSummary" =>
        LET order == <<"gemini", "openrouter", "deepseek", "local">>
            attempts == ProvidersOf(call[t].log, "attempt")
            failed == ProvidersOf(call[t].log, "failed")
        IN  /\ Len(attempts) <= 4
            /\ attempts = SubSeq(order, 1, Len(attempts))
            /\ pc[t] # "idle" => failed = SubSeq(order, 1, Len(attempts) - 1)
            /\ (pc[t] = "idle" /\ "provider" \in DOMAIN call[t].ret) =>
                  /\ call[t].ret.provider = order[Len(attempts)]
                  /\ failed = SubSeq(order, 1, Len(attempts) - 1)
                  /\ currentProvider = call[t].ret.provider

\* C1 witness: two providers failed, the third answered, the fourth was
\* never attempted
C1_Witness ==
    /\ pc["t1"] = "idle"
    /\ call["t1"].op = "generateSummary"
    /\ "provider" \in DOMAIN call["t1"].ret
    /\ call["t1"].ret.provider = "deepseek"
    /\ ProvidersOf(call["t1"].log, "failed") = <<"gemini", "openrouter">>

\* C2: when all four providers fail, generateSummary rejects with one error
\* whose message has exactly one entry per provider, each with the reason
\* that provider failed with, in the order gemini, openrouter, deepseek, local
C2_AggregateError ==
    \A t \in Tasks :
      ( /\ call[t].op = "generateSummary"
        /\ pc[t] = "idle"
        /\ "rejected" \in DOMAIN call[t].ret ) =>
        LET failed == Events(call[t].log, "failed") IN
        /\ Len(failed) = 4
        /\ Events(call[t].log, "attempt") =
              <<Attempt("gemini"), Attempt("openrouter"),
                Attempt("deepseek"), Attempt("local")>>
        /\ call[t].ret.rejected =
              "All AI providers failed:"
                 \o "\n- gemini: " \o failed[1].error
                 \o "\n- openrouter: " \o failed[2].error
                 \o "\n- deepseek: " \o failed[3].error
                 \o "\n- local: " \o failed[4].error
        /\ \A i \in 1..4 :
              failed[i].provider = <<"gemini", "openrouter", "deepseek", "local">>[i]

\* C2 witness: all four providers failed, for different reasons
C2_Witness ==
    /\ pc["t1"] = "idle"
    /\ call["t1"].op = "generateSummary"
    /\ "rejected" \in DOMAIN call["t1"].ret
    /\ LET failed == Events(call["t1"].log, "failed") IN
         /\ Len(failed) = 4
         /\ failed[1].error = "Gemini API key not configured"
         /\ failed[2].error = "Failed to fetch"
         /\ failed[4].error # failed[2].error

(***************************************************************************)
(* Properties of the summary requests, checked under Spec                  *)
(***************************************************************************)
Handlers == {"handleGetSummary", "generateAndShowSummary"}

\* the messages a call has sent to the side panel, in order
Sent(c) ==
    LET es == Events(c.log, "sendMessage") IN [i \in 1..Len(es) |-> es[i].msg]

\* the calls a request makes to the transcript extractor and the providers
Outward(c) ==
    SelectSeq(c.log, LAMBDA e : e.ev \in {"fetchTranscript", "fetchMetadata",
                                           "generateSummary", "attempt", "fetch"})

\* C3 as claimed: the cache lookup is the first step of a summary request,
\* so the first call a request makes is the read of the cache
C3_CacheLookupFirst ==
    \A t \in Tasks :
      (call[t].op \in Handlers /\ call[t].log # <<>>) =>
         call[t].log[1].ev = "local.get"

\* C3 as amended: a request first checks that a provider is configured and
\* ends there, without reading the cache, when none is; the cache lookup is
\* its second step, and when that read succeeds and finds an unexpired entry
\* the request answers with the cached result and calls neither the
\* transcript extractor, the metadata fetch nor any provider
C3_CacheHitShortCircuits ==
    [][\A t \in Tasks :
        /\ CheckConfig(t) =>
              /\ call[t].log = <<>>
              /\ pc'[t] = "idle" => Events(call'[t].log, "local.get") = <<>>
        /\ ( /\ pc[t] = "cache_read"
             /\ CacheKey(call[t].args.videoId) \in DOMAIN localStore
             /\ now <= localStore[CacheKey(call[t].args.videoId)].expiresAt
             /\ RequestCacheRead(t, TRUE) )
           => LET cached == localStore[CacheKey(call[t].args.videoId)].data IN
              /\ pc'[t] = "idle"
              /\ call[t].log = <<[ev |-> "sync.get", hasProvider |-> TRUE]>>
              /\ Outward(call'[t]) = <<>>
              /\ localStore' = localStore
              /\ call[t].op = "handleGetSummary" =>
                    /\ call'[t].ret.data = cached
                    /\ call'[t].ret.fromCache = TRUE
              /\ call[t].op = "generateAndShowSummary" =>
                    /\ Len(Sent(call'[t])) = 1
                    /\ Sent(call'[t])[1].action = "showSummary"
                    /\ Sent(call'[t])[1].data.summary = cached.summary
                    /\ Sent(call'[t])[1].data.provider = cached.provider
                    /\ Sent(call'[t])[1].data.fromCache = TRUE
       ]_vars

\* C3 witness: a context-menu request was answered from the cache
C3_Witness ==
    /\ pc["t1"] = "idle"
    /\ call["t1"].op = "generateAndShowSummary"
    /\ Len(Sent(call["t1"])) = 1
    /\ Sent(call["t1"])[1].action = "showSummary"
    /\ Sent(call["t1"])[1].data.fromCache = TRUE
    /\ Outward(call["t1"]) = <<>>

\* what a settled request told its caller: the value handleGetSummary
\* returned, the last message generateAndShowSummary sent
Answer(c) ==
    IF c.op = "handleGetSummary" THEN c.ret
    ELSE Sent(c)[Len(Sent(c))]

\* C4: a request that finds no cache entry, gets a transcript and whose
\* first provider is configured and answers, returns provider gemini with
\* fromCache false and caches that result; a request that reads the cache
\* at the instant an entry was cached returns that entry's summary with
\* fromCache true and attempts no provider
C4_FirstThenCached ==
    [][\A t \in Tasks :
        /\ ( /\ pc[t] = "cache_write"
             /\ Events(call[t].log, "local.get") = <<[ev |-> "local.get", ok |-> TRUE]>>
             /\ Events(call[t].log, "local.remove") = <<>>
             /\ Events(call[t].log, "generateSummary")[1].transcript.available
             /\ Events(call[t].log, "attempt") = <<Attempt("gemini")>>
             /\ RequestCacheWrite(t, TRUE) )
           => LET entry == localStore'[CacheKey(call[t].args.videoId)] IN
              /\ pc'[t] = "idle"
              /\ entry.cachedAt = now
              /\ call[t].op = "handleGetSummary" =>
                    /\ Answer(call'[t]).fromCache = FALSE
                    /\ Answer(call'[t]).provider = "gemini"
                    /\ Answer(call'[t]).data.provider = "gemini"
                    /\ entry.data = Answer(call'[t]).data
              /\ call[t].op = "generateAndShowSummary" =>
                    /\ Answer(call'[t]).action = "showSummary"
                    /\ Answer(call'[t]).data.fromCache = FALSE
                    /\ Answer(call'[t]).data.provider = "gemini"
                    /\ entry.data = Answer(call'[t]).data
        /\ ( /\ pc[t] = "cache_read"
             /\ CacheKey(call[t].args.videoId) \in DOMAIN localStore
             /\ localStore[CacheKey(call[t].args.videoId)].cachedAt = now
             /\ RequestCacheRead(t, TRUE) )
           => LET cached == localStore[CacheKey(call[t].args.videoId)].data IN
              /\ pc'[t] = "idle"
              /\ Events(call'[t].log, "attempt") = <<>>
              /\ call[t].op = "handleGetSummary" =>
                    /\ Answer(call'[t]).fromCache = TRUE
                    /\ Answer(call'[t]).provider = cached.provider
                    /\ Answer(call'[t]).data.summary = cached.summary
              /\ call[t].op = "generateAndShowSummary" =>
                    /\ Answer(call'[t]).data.fromCache = TRUE
                    /\ Answer(call'[t]).data.provider = cached.provider
                    /\ Answer(call'[t]).data.summary = cached.summary
       ]_vars

\* C4 witness: a getSummary request was answered from an entry that a
\* request answered by gemini cached at this very instant
C4_Witness ==
    /\ pc["t1"] = "idle"
    /\ call["t1"].op = "handleGetSummary"
    /\ "fromCache" \in DOMAIN call["t1"].ret
    /\ call["t1"].ret.fromCache = TRUE
    /\ call["t1"].ret.provider = "gemini"
    /\ call["t1"].ret.data.summary = "Summary one"
    /\ CacheKey("abc123") \in DOMAIN localStore
    /\ localStore[CacheKey("abc123")].cachedAt = now

\* C5 as claimed: a request that finds no provider configured answers with
\* an error that carries needsSetup true
C5_NeedsSetupOnEveryPath ==
    \A t \in Tasks :
      ( /\ call[t].op \in Handlers
        /\ pc[t] = "idle"
        /\ call[t].log[1] = [ev |-> "sync.get", hasProvider |-> FALSE] ) =>
         /\ "needsSetup" \in DOMAIN Answer(call[t])
         /\ Answer(call[t]).needsSetup = TRUE

\* C5 as amended: when no provider has a credential or URL configured,
\* handleGetSummary returns an error with needsSetup true and
\* generateAndShowSummary sends the side panel a showError message with its
\* own not-configured text and no needsSetup field; neither fetches a
\* transcript or calls a provider; with any provider configured the request
\* goes on to the cache lookup
C5_NotConfigured ==
    [][\A t \in Tasks :
        CheckConfig(t) =>
          IF /\ syncStore.apiKey = ""
             /\ syncStore.openRouterApiKey = ""
             /\ syncStore.deepSeekApiKey = ""
             /\ syncStore.ollamaUrl = ""
            THEN /\ pc'[t] = "idle"
                 /\ Outward(call'[t]) = <<>>
                 /\ Events(call'[t].log, "local.get") = <<>>
                 /\ call[t].op = "handleGetSummary" =>
                       call'[t].ret = [error |-> "No API providers configured",
                                       needsSetup |-> TRUE]
                 /\ call[t].op = "generateAndShowSummary" =>
                       /\ call'[t].ret = Null
                       /\ Sent(call'[t]) =
                            << [action |-> "showError",
                                error |-> "No AI provider configured. Please set up Gemini, DeepSeek, or Ollama in extension settings."] >>
            ELSE pc'[t] = "cache_read"
       ]_vars

\* C5 witness: a context-menu request ended in the not-configured message
C5_Witness ==
    /\ pc["t1"] = "idle"
    /\ call["t1"].op = "generateAndShowSummary"
    /\ call["t1"].log[1] = [ev |-> "sync.get", hasProvider |-> FALSE]
    /\ Len(Sent(call["t1"])) = 1
    /\ Sent(call["t1"])[1].action = "showError"

\* C6: when no transcript is available the request still runs the cascade,
\* and the text it hands to the cascade is the description built from the
\* title, channel and description of the metadata, never null
C6_MetadataFallback ==
    \A t \in Tasks :
      call[t].op \in Handlers =>
        \A i \in 1..Len(call[t].log) :
          LET e == call[t].log[i]
              title == IF "title" \in DOMAIN call[t].args
                         THEN call[t].args.title ELSE ""
          IN  (e.ev = "generateSummary" /\ ~e.transcript.available) =>
                /\ e.input.type = "string"
                /\ e.input.value = MetadataPrompt(e.metadata, title)
                /\ i < Len(call[t].log)
                /\ call[t].log[i + 1].ev = "attempt"

(***************************************************************************)
(* Further properties of SummaryCache, checked under SpecCache             *)
(***************************************************************************)
\* C11: getStats returns total = the number of cache entries, valid = the
\* number of them a get would return at that moment, expired = the number
\* past expiresAt and still stored; total = valid + expired, and an entry
\* counts as expired exactly when a get of it would go on to delete it
C11_StatsMatchGet ==
    [][\A t \in Tasks :
        ( /\ pc[t] = "idle"
          /\ call'[t].op = "getStats"
          /\ CacheGetStats(t, TRUE) )
        => LET ids == CachedIds(localStore)
               returned == {id \in ids :
                   GetOutcome(localStore, CacheKey(id), now, TRUE)
                      = [kind |-> "return", value |-> localStore[CacheKey(id)].data]}
               deleted == {id \in ids :
                   GetOutcome(localStore, CacheKey(id), now, TRUE).kind = "delete"}
               past == {id \in ids : now > localStore[CacheKey(id)].expiresAt}
           IN  /\ pc'[t] = "idle"
               /\ call'[t].ret.total = Cardinality(ids)
               /\ call'[t].ret.valid = Cardinality(returned)
               /\ call'[t].ret.expired = Cardinality(deleted)
               /\ call'[t].ret.expired = Cardinality(past)
               /\ call'[t].ret.total = call'[t].ret.valid + call'[t].ret.expired
               /\ localStore' = localStore
       ]_vars

\* C11 witness: getStats counted one valid and one expired entry
C11_Witness ==
    /\ pc["t1"] = "idle"
    /\ call["t1"].op = "getStats"
    /\ call["t1"].log[1].ok
    /\ call["t1"].ret = [total |-> 2, valid |-> 1, expired |-> 1]

\* C12: no cache operation passes a storage failure on to its caller: when
\* the storage call fails, get returns null, clear returns 0, getStats
\* returns zero counts, set and delete complete with no value, and the store
\* is left as it was
C12_StorageFailuresSwallowed ==
    [][\A t \in Tasks :
        /\ ( /\ pc[t] = "idle"
             /\ call'[t].op = "get"
             /\ CacheGet(t, call'[t].args.videoId, FALSE) )
           => /\ pc'[t] = "idle"
              /\ call'[t].ret = Null
              /\ localStore' = localStore
        /\ CacheGetDelete(t, FALSE) =>
              /\ pc'[t] = "idle"
              /\ call'[t].ret = Null
              /\ localStore' = localStore
        /\ ( /\ pc[t] = "idle"
             /\ call'[t].op = "set"
             /\ CacheSet(t, call'[t].args.videoId, call'[t].args.data,
                         call'[t].args.ttlHours, FALSE) )
           => /\ pc'[t] = "idle"
              /\ call'[t].ret = Null
              /\ localStore' = localStore
        /\ ( /\ pc[t] = "idle"
             /\ call'[t].op = "delete"
             /\ CacheDelete(t, call'[t].args.videoId, FALSE) )
           => /\ pc'[t] = "idle"
              /\ call'[t].ret = Null
              /\ localStore' = localStore
        /\ CacheClear(t, FALSE) =>
              /\ pc'[t] = "idle"
              /\ call'[t].ret = 0
              /\ localStore' = localStore
        /\ CacheClearRemove(t, FALSE) =>
              /\ pc'[t] = "idle"
              /\ call'[t].ret = 0
              /\ localStore' = localStore
        /\ CacheGetStats(t, FALSE) =>
              /\ pc'[t] = "idle"
              /\ call'[t].ret = [total |-> 0, valid |-> 0, expired |-> 0]
              /\ localStore' = localStore
       ]_vars

\* C12 witness: the storage read of a getStats failed while entries were
\* stored, and getStats returned zero counts
C12_Witness ==
    /\ pc["t1"] = "idle"
    /\ call["t1"].op = "getStats"
    /\ ~call["t1"].log[1].ok
    /\ call["t1"].ret = [total |-> 0, valid |-> 0, expired |-> 0]
    /\ CachedIds(localStore) # {}

\* C14: delete(id) removes the entry of id whether or not there is one,
\* touches no other entry and returns no error; a second delete(id) right
\* after the first changes nothing, and neither does the delete of an id
\* that has no entry
C14_DeleteIdempotent ==
    [][\A t \in Tasks :
        ( /\ pc[t] = "idle"
          /\ call'[t].op = "delete"
          /\ CacheDelete(t, call'[t].args.videoId, TRUE) )
        => LET key == CacheKey(call'[t].args.videoId) IN
           /\ pc'[t] = "idle"
           /\ call'[t].ret = Null
           /\ DOMAIN localStore' = (DOMAIN localStore) \ {key}
           /\ \A k \in DOMAIN localStore' : localStore'[k] = localStore[k]
           /\ key \notin DOMAIN localStore => localStore' = localStore
           /\ ( /\ call[t].op = "delete"
                /\ call[t].args = call'[t].args
                /\ call[t].log[1].ok )
              => localStore' = localStore
       ]_vars

\* C14 witness: a delete completed, its id has no entry and the entry of
\* the other id is still stored
C14_Witness ==
    /\ pc["t1"] = "idle"
    /\ call["t1"].op = "delete"
    /\ call["t1"].log[1].ok
    /\ CachedIds(localStore) = VideoIds \ {call["t1"].args.videoId}

(***************************************************************************)
(* Further properties of the summary requests, checked under Spec          *)
(***************************************************************************)
\* C13 as claimed: the only errors a summary request answers with are the
\* not-configured error and the all-providers-failed error
C13_OnlyTwoErrors ==
    \A t \in Tasks :
      ( /\ call[t].op \in Handlers
        /\ pc[t] = "idle"
        /\ "error" \in DOMAIN Answer(call[t]) ) =>
         \/ Answer(call[t]).error = "No API providers configured"
         \/ Answer(call[t]).error =
              "No AI provider configured. Please set up Gemini, DeepSeek, or Ollama in extension settings."
         \/ StartsWith(Answer(call[t]).error, "All AI providers failed:")

\* C13 as amended: a summary request answers with an error in three cases
\* only: the read of the settings failed, no provider is configured, or all
\* four providers failed; as soon as one provider answers, the request
\* answers with that summary, whatever failed before it: other providers,
\* the transcript or metadata fetch, the cache read or the cache write
C13_ErrorKinds ==
    \A t \in Tasks :
      (call[t].op \in Handlers /\ pc[t] = "idle") =>
        LET c == call[t]
            a == Answer(c)
            failed == Events(c.log, "failed")
        IN  /\ "error" \in DOMAIN a =>
                 \/ /\ c.log[1] = [ev |-> "sync.get", failed |-> TRUE]
                    /\ Len(c.log) = IF c.op = "handleGetSummary" THEN 1 ELSE 2
                 \/ /\ c.log[1] = [ev |-> "sync.get", hasProvider |-> FALSE]
                    /\ a.error \in
                         {"No API providers configured",
                          "No AI provider configured. Please set up Gemini, DeepSeek, or Ollama in extension settings."}
                 \/ /\ Len(failed) = 4
                    /\ a.error = "All AI providers failed:"
                                    \o "\n- gemini: " \o failed[1].error
                                    \o "\n- openrouter: " \o failed[2].error
                                    \o "\n- deepseek: " \o failed[3].error
                                    \o "\n- local: " \o failed[4].error
            /\ (Events(c.log, "attempt") # <<>> /\ Len(failed) < 4) =>
                 /\ "error" \notin DOMAIN a
                 /\ a.data.provider = Events(c.log, "attempt")[Len(failed) + 1].provider
                 /\ a.data.summary \in {"Summary one", "No response from Ollama"}
                 /\ c.op = "handleGetSummary" => a.success /\ ~a.fromCache
                 /\ c.op = "generateAndShowSummary" => a.action = "showSummary"

\* C13 witness: the cache read failed, no transcript was available, three
\* providers failed, the fourth answered, the cache write failed, and the
\* request answered with the summary
C13_Witness ==
    /\ pc["t1"] = "idle"
    /\ call["t1"].op = "handleGetSummary"
    /\ "success" \in DOMAIN call["t1"].ret
    /\ call["t1"].ret.provider = "local"
    /\ Events(call["t1"].log, "local.get") = <<[ev |-> "local.get", ok |-> FALSE]>>
    /\ Events(call["t1"].log, "local.set") = <<[ev |-> "local.set", ok |-> FALSE]>>
    /\ Len(Events(call["t1"].log, "failed")) = 3
    /\ ~Events(call["t1"].log, "generateSummary")[1].transcript.available

C16_AvailableIffText ==
    \A t \in Tasks :
      (pc[t] = "idle" /\ call[t].op = "fetchTranscript") =>
         ( call[t].ret.available
             <=> (call[t].ret.text # Null /\ call[t].ret.text.value # "") )

\* C16 witness: the caption body held nothing but white space, the page had
\* no captions, and the result is not available
C16_Witness ==
    /\ pc["t1"] = "idle"
    /\ call["t1"].op = "fetchTranscript"
    /\ call["t1"].args.env.player.kind = "ok"
    /\ call["t1"].args.env.player.body # Null
    /\ call["t1"].args.env.player.body.captionTracks # Null
    /\ Len(call["t1"].args.env.player.body.captionTracks.items) = 2
    /\ call["t1"].args.env.json3 = Body([events |-> << <<" ", "\n", "">> >>])
    /\ call["t1"].args.env.page.kind = "network"
    /\ call["t1"].ret.available = FALSE
    /\ call["t1"].ret.text = Null

ParsedCalls == {t \in Tasks : pc[t] = "idle" /\ call[t].op = "_parseResponse"}

\* the text behind the first occurrence of a marker, in any letter case;
\* null when the marker does not occur
TextAfter(text, marker) ==
    LET p == IndexFrom(text, marker, 1)
    IN  IF p = 0 THEN Null ELSE Str(From(text, p + Len(marker)))

\* the text before the first occurrence of a marker, all of it when the
\* marker does not occur
TextBefore(text, marker) ==
    LET p == IndexFrom(text, marker, 1)
    IN  IF p = 0 THEN text ELSE SubSeq(text, 1, p - 1)

\* the bullet lines between the first SUMMARY: and the first TAKEAWAYS:
\* behind it, without their bullet
BulletsBetweenMarkers(text) ==
    LET after == TextAfter(text, "summary:")
    IN  IF after = Null THEN <<>>
        ELSE BulletsOf(TrimLines(Split(TextBefore(after.value, "takeaways:"))))

\* the numbered lines behind the first TAKEAWAYS:, without their number
NumberedAfterMarker(text) ==
    LET after == TextAfter(text, "takeaways:")
    IN  IF after = Null THEN <<>>
        ELSE NumberedOf(TrimLines(Split(after.value)))

\* the first line at or after position i that starts with a header, in any
\* letter case; 0 when there is none
HeaderLine(lines, header, i) ==
    LET hits == {j \in i..Len(lines) :
                    /\ Len(lines[j].line) >= Len(header)
                    /\ LowerCase(SubSeq(lines[j].line, 1, Len(header))) = header}
    IN  IF hits = {} THEN 0 ELSE Least(hits)

\* the bullet lines under the SUMMARY: header line, up to the TAKEAWAYS:
\* header line, without their bullet
BulletsUnderHeader(text) ==
    LET lines == TrimLines(Split(text))
        first == HeaderLine(lines, "summary:", 1)
        next == HeaderLine(lines, "takeaways:", first + 1)
        last == IF next = 0 THEN Len(lines) ELSE next - 1
    IN  IF first = 0 THEN <<>>
        ELSE BulletsOf(SubSeq(lines, first + 1, last))

\* the numbered lines under the TAKEAWAYS: header line, without their number
NumberedUnderHeader(text) ==
    LET lines == TrimLines(Split(text))
        first == HeaderLine(lines, "takeaways:", 1)
    IN  IF first = 0 THEN <<>>
        ELSE NumberedOf(SubSeq(lines, first + 1, Len(lines)))

\* C18 as stated: at most 8 summary entries and at most 3 takeaways; more
\* than 8 bullet lines under SUMMARY: give exactly the first 8 in order, more
\* than 3 numbered lines under TAKEAWAYS: give exactly the first 3 in order
C18_FirstOfLinesUnderHeader ==
    \A t \in ParsedCalls :
        LET text == call[t].args.text
            bullets == BulletsUnderHeader(text)
            numbered == NumberedUnderHeader(text)
        IN  /\ Len(call[t].ret.summary.items) <= 8
            /\ Len(call[t].ret.takeaways.items) <= 3
            /\ Len(bullets) > 8 => call[t].ret.summary.items = SubSeq(bullets, 1, 8)
            /\ Len(numbered) > 3 => call[t].ret.takeaways.items = SubSeq(numbered, 1, 3)

\* C18: the parser returns at most 8 summary entries and at most 3
\* takeaways; when more than 8 bullet lines lie between the first SUMMARY:
\* and the first TAKEAWAYS: behind it (in any letter case, anywhere in a
\* line) it returns the first 8 of them in order, and when more than 3
\* numbered lines lie behind the first TAKEAWAYS: it returns the first 3 of
\* them in order
C18_FirstOfLinesBetweenMarkers ==
    \A t \in ParsedCalls :
        LET text == call[t].args.text
            bullets == BulletsBetweenMarkers(text)
            numbered == NumberedAfterMarker(text)
        IN  /\ Len(call[t].ret.summary.items) <= 8
            /\ Len(call[t].ret.takeaways.items) <= 3
            /\ Len(bullets) > 8 => call[t].ret.summary.items = SubSeq(bullets, 1, 8)
            /\ Len(numbered) > 3 => call[t].ret.takeaways.items = SubSeq(numbered, 1, 3)

\* C18 witness: a response with ten bullet lines between the markers and
\* five numbered lines was parsed to eight entries and three takeaways
C18_Witness ==
    \E t \in ParsedCalls :
        /\ Len(BulletsBetweenMarkers(call[t].args.text)) = 10
        /\ Len(NumberedAfterMarker(call[t].args.text)) = 5
        /\ Len(call[t].ret.summary.items) = 8
        /\ call[t].ret.summary.items[8] = "point 8"
        /\ Len(call[t].ret.takeaways.items) = 3
        /\ call[t].ret.takeaways.items[3] = "insight 3"

TestedCalls == {t \in Tasks : pc[t] = "idle" /\ call[t].op = "testProviders"}

\* C20: testProviders never rejects; it calls each of the four providers
\* exactly once with the sample transcript, in the order gemini, openrouter,
\* deepseek, local, whatever the earlier providers did, and returns exactly
\* four results in that order, each marked success or failed
C20_TestsEveryProviderOnce ==
    \A t \in TestedCalls :
        LET order == <<"gemini", "openrouter", "deepseek", "local">>
            calls == Events(call[t].log, "callProvider")
            results == call[t].ret
        IN  /\ "rejected" \notin DOMAIN results
            /\ results.type = "array"
            /\ Len(results.items) = 4
            /\ \A i \in 1..4 :
                  /\ results.items[i].provider = order[i]
                  /\ results.items[i].status \in {"success", "failed"}
            /\ Len(calls) = 4
            /\ \A i \in 1..4 :
                  /\ calls[i].provider = order[i]
                  /\ calls[i].transcript =
                        "This is a test video about machine learning and artificial intelligence."

\* C20 witness: a test run went on after a failure and after a success:
\* gemini failed, openrouter succeeded, deepseek failed, local succeeded
C20_Witness ==
    \E t \in TestedCalls :
        /\ call[t].ret.type = "array"
        /\ Len(call[t].ret.items) = 4
        /\ call[t].ret.items[1].status = "failed"
        /\ call[t].ret.items[2].status = "success"
        /\ call[t].ret.items[3].status = "failed"
        /\ call[t].ret.items[4].status = "success"
        /\ Len(Events(call[t].log, "callProvider")) = 4

(***************************************************************************)
(* Properties of the side panel's history, checked under SpecPanel.        *)
(***************************************************************************)
\* the summaries shown so far, most recent first, as history entries
ShownNewestFirst(log) ==
    LET shown == Events(log, "shown")
    IN  [i \in 1..Len(shown) |->
            [summary |-> shown[Len(shown) + 1 - i].summary,
             provider |-> shown[Len(shown) + 1 - i].provider,
             timestamp |-> shown[Len(shown) + 1 - i].at]]

\* C21: the stored history never holds more than 10 entries; once the
\* storage calls issued so far have been carried out, none of them having
\* failed, it holds the summaries shown so far, most recent first, cut to
\* the 10 most recent
C21_HistoryIsLastTen ==
    /\ Len(StoredHistory(localStore)) <= 10
    /\ ( /\ call[PanelTask].op = "sidePanel"
         /\ call[PanelTask].ret # StorageFailed
         /\ PendingWrites(PanelTask) = <<>> )
       => LET expected == ShownNewestFirst(call[PanelTask].log)
          IN  StoredHistory(localStore) =
                 SubSeq(expected, 1, IF Len(expected) < 10 THEN Len(expected) ELSE 10)

\* C21 witness: eleven summaries were shown, the last of them later than
\* the first; all writes are done and the stored history holds ten entries
\* with the last one shown in front and the first one shown dropped
C21_Witness ==
    /\ call[PanelTask].op = "sidePanel"
    /\ call[PanelTask].ret # StorageFailed
    /\ PendingWrites(PanelTask) = <<>>
    /\ Len(Events(call[PanelTask].log, "shown")) = 11
    /\ Events(call[PanelTask].log, "shown")[1].at < Events(call[PanelTask].log, "shown")[2].at
    /\ Events(call[PanelTask].log, "shown")[2].at < Events(call[PanelTask].log, "shown")[11].at
    /\ Len(StoredHistory(localStore)) = 10
    /\ StoredHistory(localStore)[1].timestamp = now
    /\ StoredHistory(localStore)[10].timestamp = Events(call[PanelTask].log, "shown")[2].at

(***************************************************************************)
(* Properties of the hover tooltip, checked under SpecHover.               *)
(***************************************************************************)
\* the hovers that ended less than 500 ms after they began: hover h began
\* with the h-th mouseenter and ended with the mouseleave that followed it
ShortHovers(log) ==
    {h \in 1..Len(Events(log, "enter")) :
        \E i \in 1..Len(log) :
            /\ log[i].ev = "leave"
            /\ log[i].hover = h
            /\ log[i].at < Events(log, "enter")[h].at + 500}

\* C22: a hover that ends before 500 ms have elapsed sends no summary
\* request and shows no tooltip; at most one hover timer is pending
C22_ShortHoverDoesNothing ==
    pc[ContentTask] = "page" =>
        /\ \A h \in ShortHovers(call[ContentTask].log) :
              \A i \in 1..Len(call[ContentTask].log) :
                  call[ContentTask].log[i].ev \in {"request", "tooltip"}
                     => call[ContentTask].log[i].hover # h
        /\ Cardinality(loc[ContentTask].timers) <= 1

\* C22 witness: the first hover ended after 1 ms, the second one lasted 500
\* ms and sent a request; there is no request of the first
C22_Witness ==
    /\ pc[ContentTask] = "page"
    /\ 1 \in ShortHovers(call[ContentTask].log)
    /\ 2 \notin ShortHovers(call[ContentTask].log)
    /\ Len(Events(call[ContentTask].log, "request")) = 1
    /\ Events(call[ContentTask].log, "request")[1].hover = 2
    /\ Events(call[ContentTask].log, "leave")[1].at = Events(call[ContentTask].log, "enter")[1].at + 1

\* the positions of the log at which a provider request is still in flight:
\* a "fetch" event that no later "failed" event of the same provider answers
InFlight(log) ==
    {k \in 1..Len(log) :
        /\ log[k].ev = "fetch"
        /\ ~\E j \in (k + 1)..Len(log) :
              log[j].ev = "failed" /\ log[j].provider = log[k].provider}

\* C23: the cascade is strictly sequential and free of retries: at most one
\* provider request is in flight at any time, an attempt other than the
\* first directly follows the failure of the attempt before it, and no
\* provider is attempted or requested twice in one generateSummary call
C23_SequentialNoRetry ==
    \A t \in Tasks :
      call[t].op = "generateSummary" =>
        LET log == call[t].log
            attempts == ProvidersOf(log, "attempt")
            fetches == ProvidersOf(log, "fetch")
        IN  /\ Cardinality(InFlight(log)) <= 1
            /\ pc[t] # "provider_fetch" => (pc[t] = "idle" \/ InFlight(log) = {})
            /\ \A k \in 2..Len(log) :
                  log[k].ev = "attempt" =>
                     /\ log[k - 1].ev = "failed"
                     /\ \E j \in 1..(k - 2) :
                           /\ log[j].ev = "attempt"
                           /\ log[j].provider = log[k - 1].provider
                           /\ \A m \in (j + 1)..(k - 2) : log[m].ev # "attempt"
            /\ \A i, j \in 1..Len(attempts) : attempts[i] = attempts[j] => i = j
            /\ \A i, j \in 1..Len(fetches) : fetches[i] = fetches[j] => i = j

\* two requests of one cascade, the second sent after the first had failed
C23_Witness ==
    /\ pc["t1"] = "provider_fetch"
    /\ call["t1"].op = "generateSummary"
    /\ ProvidersOf(call["t1"].log, "fetch") = <<"gemini", "deepseek">>
    /\ ProvidersOf(call["t1"].log, "failed") = <<"gemini", "openrouter">>
    /\ Cardinality(InFlight(call["t1"].log)) = 1

\* the stored setting that names a provider's credential, and for the local
\* provider its endpoint
CredentialOf(settings, provider) ==
    CASE provider = "gemini" -> settings.apiKey
      [] provider = "openrouter" -> settings.openRouterApiKey
      [] provider = "deepseek" -> settings.deepSeekApiKey
      [] OTHER -> settings.ollamaUrl

\* what a step of task t appends to the log of its call
Appended(t) == SubSeq(call'[t].log, Len(call[t].log) + 1, Len(call'[t].log))

\* a step in which the generateSummary call of task t reads its
\* provider's settings
ReadsConfig(t) ==
    /\ pc[t] = "provider_config"
    /\ call[t].op = "generateSummary"
    /\ call'[t] # call[t]

\* the attempt fails as not configured, nothing is requested, and the
\* cascade goes on to the next provider or ends
FailsUnrequested(t) ==
    LET provider == Providers[loc[t].i]
        new == Appended(t)
    IN  /\ Len(new) >= 1
        /\ new[1].ev = "failed"
        /\ new[1].provider = provider
        /\ \A k \in 1..Len(new) : new[k].ev # "fetch"
        /\ IF loc[t].i < Len(Providers)
             THEN /\ new = <<new[1], Attempt(Providers[loc[t].i + 1])>>
                  /\ pc'[t] = "provider_config"
             ELSE pc'[t] = "idle"

\* C24 as stated: whichever of the four providers has no credential or
\* endpoint stored when it is attempted fails as not configured without a
\* request, and the cascade continues
C24_UnconfiguredProviderSendsNothing ==
    [][\A t \in Tasks :
          ( /\ ReadsConfig(t)
            /\ CredentialOf(syncStore, Providers[loc[t].i]) = "" )
          => FailsUnrequested(t)]_vars

\* C24: gemini, openrouter and deepseek fail with "<name> API key not
\* configured" without a request when their key is not stored, and the
\* cascade continues with the next provider; the local provider has no
\* required setting and sends its request whatever is stored
C24_UnconfiguredCloudProviderSendsNothing ==
    [][\A t \in Tasks :
          ReadsConfig(t) =>
            LET provider == Providers[loc[t].i] IN
            /\ ( provider # "local" /\ CredentialOf(syncStore, provider) = "" )
                  => /\ FailsUnrequested(t)
                     /\ Appended(t)[1].error = NotConfiguredMessage(provider)
            /\ provider = "local"
                  => /\ Appended(t) = <<[ev |-> "fetch", provider |-> "local"]>>
                     /\ pc'[t] = "provider_fetch"]_vars

\* three cloud providers failed as not configured without a request, and the
\* local provider's request is in flight although no endpoint is stored
C24_Witness ==
    /\ pc["t1"] = "provider_fetch"
    /\ call["t1"].op = "generateSummary"
    /\ syncStore.ollamaUrl = ""
    /\ ProvidersOf(call["t1"].log, "fetch") = <<"local">>
    /\ LET failed == Events(call["t1"].log, "failed") IN
         /\ Len(failed) = 3
         /\ failed[1].error = "Gemini API key not configured"
         /\ failed[2].error = "OpenRouter API key not configured"
         /\ failed[3].error = "DeepSeek API key not configured"

\* a step in which a response without the text field reaches the
\* generateSummary call of task t
MalformedArrives(t) ==
    /\ pc[t] = "provider_fetch"
    /\ call[t].op = "generateSummary"
    /\ ProviderFetch(t, Malformed)

\* the provider's failure is appended to the log and to the error list, and
\* the call does not return a summary in this step
RecordedAsFailure(t) ==
    LET provider == Providers[loc[t].i]
        new == Appended(t)
    IN  /\ Len(new) >= 1
        /\ new[1].ev = "failed"
        /\ new[1].provider = provider
        /\ pc'[t] = "idle" => "rejected" \in DOMAIN call'[t].ret
        /\ pc'[t] # "idle" =>
              /\ Len(loc'[t].errors) = Len(loc[t].errors) + 1
              /\ loc'[t].errors[Len(loc'[t].errors)] =
                    [provider |-> provider, error |-> new[1].error]

C26_ConfigReadAtEachAttempt ==
    [][\A t \in Tasks :
          ReadsConfig(t) =>
            LET provider == Providers[loc[t].i]
                new == Appended(t)
                requested == Len(new) >= 1 /\ new[1] = [ev |-> "fetch", provider |-> provider]
                unconfigured ==
                    /\ Len(new) >= 1
                    /\ new[1] = [ev |-> "failed", provider |-> provider,
                                 error |-> NotConfiguredMessage(provider)]
            IN  /\ syncStore' = syncStore
                /\ provider # "local" =>
                      /\ requested <=> CredentialOf(syncStore, provider) # ""
                      /\ unconfigured <=> CredentialOf(syncStore, provider) = ""]_vars

\* an earlier call was answered by gemini; in the present call gemini's key
\* was found removed, openrouter's key was found and has been removed
\* since its request was sent, and deepseek's key is found by its attempt
C26_Witness ==
    /\ currentProvider = "gemini"
    /\ pc["t1"] = "provider_fetch"
    /\ call["t1"].op = "generateSummary"
    /\ ProvidersOf(call["t1"].log, "fetch") = <<"openrouter", "deepseek">>
    /\ Events(call["t1"].log, "failed")[1].error = "Gemini API key not configured"
    /\ syncStore.openRouterApiKey = ""
    /\ syncStore.deepSeekApiKey # ""

\* a step in which the cache write of task t's request reaches the store
WriteLands(t) ==
    /\ pc[t] = "cache_write"
    /\ pc'[t] = "idle"
    /\ call'[t].log[Len(call'[t].log)] = [ev |-> "local.set", ok |-> TRUE]

\* task t's request missed the cache, ran the cascade and was answered
\* with a fresh summary
AnsweredFresh(t) ==
    /\ pc[t] = "idle"
    /\ call[t].op = "handleGetSummary"
    /\ "fromCache" \in DOMAIN call[t].ret
    /\ ~call[t].ret.fromCache
    /\ Len(Events(call[t].log, "generateSummary")) = 1

\* C27: when two requests for a video that was never cached run side by
\* side, every cache write that reaches the store leaves exactly one entry
\* for the video, holding the result of the request that wrote it, and no
\* other step changes the store: once both have completed the entry is the
\* result of the request that wrote last
C27_LastWriteWins ==
    [][IF \E t \in ConcurrentTasks : WriteLands(t)
         THEN \A t \in ConcurrentTasks :
                WriteLands(t) =>
                  LET key == CacheKey(call[t].args.videoId) IN
                  /\ DOMAIN localStore' = {key}
                  /\ localStore'[key].data = call'[t].ret.data
                  /\ localStore'[key].data = loc[t].result
                  /\ localStore'[key].cachedAt = now
         ELSE localStore' = localStore]_vars

\* both requests missed the cache and ran the cascade, their results
\* differ, and the one entry of the cache is the result written last
C27_Witness ==
    /\ AnsweredFresh("t1")
    /\ AnsweredFresh("t2")
    /\ Events(call["t1"].log, "local.set") = <<[ev |-> "local.set", ok |-> TRUE]>>
    /\ Events(call["t2"].log, "local.set") = <<[ev |-> "local.set", ok |-> TRUE]>>
    /\ call["t1"].ret.data # call["t2"].ret.data
    /\ DOMAIN localStore = {CacheKey("abc123")}
    /\ localStore[CacheKey("abc123")].data = call["t2"].ret.data
    /\ localStore[CacheKey("abc123")].cachedAt = now
    /\ ticks > 0

\* C28: the removal at the end of a get that found an expired entry removes
\* nothing but an expired entry, however the get interleaves with a set of
\* the same video
C28_GetRemovesOnlyExpired ==
    [][\A t \in Tasks :
          ( /\ pc[t] = "get_delete"
            /\ pc'[t] = "idle" )
          => \A k \in (DOMAIN localStore) \ (DOMAIN localStore') :
                IsExpired(localStore[k], now)]_vars

\* a settled request ended in an error: handleGetSummary returned one,
\* generateAndShowSummary sent showError
EndedInError(c) == "error" \in DOMAIN Answer(c)

\* the storage calls of a request that changed the store
StoreChanges(log) ==
    SelectSeq(log, LAMBDA e : e.ev \in {"local.set", "local.remove"} /\ e.ok)

\* C29 as stated: a request that ended in an error has made no storage
\* call that changed the cache
C29_FailedRequestLeavesCache ==
    \A t \in Tasks :
      ( /\ call[t].op \in Handlers
        /\ pc[t] = "idle"
        /\ EndedInError(call[t]) )
      => StoreChanges(call[t].log) = <<>>

\* C29: a request changes the cache in two steps only: the cache write,
\* which follows a provider's success and stores that result under the
\* video's key before the request answers with it, and the removal of an
\* expired entry of the requested video by the cache read.  A request that
\* ends in an error has written nothing
C29_WritesOnlyAfterSuccess ==
    [][\A t \in RequestTasks :
          call'[t] # call[t] =>
            LET key == CacheKey(call[t].args.videoId) IN
            /\ localStore' # localStore =>
                  IF pc[t] = "cache_write"
                    THEN /\ Cardinality(InFlight(call[t].log)) = 1
                         /\ \E k \in InFlight(call[t].log) :
                               call[t].log[k].provider = loc[t].result.provider
                         /\ DOMAIN localStore' = (DOMAIN localStore) \cup {key}
                         /\ localStore'[key].data = loc[t].result
                         /\ \A k \in (DOMAIN localStore) \ {key} :
                               localStore'[k] = localStore[k]
                         /\ pc'[t] = "idle"
                         /\ ~EndedInError(call'[t])
                    ELSE /\ pc[t] = "cache_delete"
                         /\ key \in DOMAIN localStore
                         /\ IsExpired(localStore[key], now)
                         /\ DOMAIN localStore' = (DOMAIN localStore) \ {key}
                         /\ \A k \in DOMAIN localStore' : localStore'[k] = localStore[k]
            /\ ( /\ pc[t] # "idle"
                 /\ pc'[t] = "idle"
                 /\ EndedInError(call'[t]) )
               => /\ pc[t] # "cache_write"
                  /\ Events(call'[t].log, "local.set") = <<>>]_vars

\* a request found an expired entry, removed it, and ended in the
\* aggregate error with the cache empty
C29_Witness ==
    /\ pc["t1"] = "idle"
    /\ call["t1"].op = "handleGetSummary"
    /\ EndedInError(call["t1"])
    /\ Len(Events(call["t1"].log, "failed")) = 4
    /\ Events(call["t1"].log, "local.set") = <<>>
    /\ StoreChanges(call["t1"].log) = <<[ev |-> "local.remove", ok |-> TRUE]>>
    /\ localStore = <<>>

\* the events of the kinds in evs that a step of task t appends
AppendedOf(t, evs) == SelectSeq(Appended(t), LAMBDA e : e.ev \in evs)

\* C30: a request that misses the cache starts the transcript fetch and the
\* metadata fetch in one step, before it waits for either; while one of the
\* two is pending it only waits; and it calls generateSummary in the step
\* in which the second of them settles, with what each of them settled
\* with: its result or its failure default
C30_FetchesJoinedBeforeCascade ==
    [][\A t \in RequestTasks :
          (pc[t] # "idle" /\ call'[t] # call[t]) =>
            /\ AppendedOf(t, {"fetchTranscript", "fetchMetadata"}) # <<>> =>
                  /\ pc[t] \in {"cache_read", "cache_delete"}
                  /\ SubSeq(Appended(t), 2, Len(Appended(t))) =
                        <<[ev |-> "fetchTranscript"], [ev |-> "fetchMetadata"]>>
                  /\ pc'[t] = "fetching"
                  /\ loc'[t].tr = Pending
                  /\ loc'[t].md = Pending
            /\ AppendedOf(t, {"generateSummary", "attempt", "fetch"}) # <<>> =>
                  pc[t] \in {"fetching", "provider_config", "provider_fetch"}
            /\ pc[t] = "fetching" =>
                  IF loc[t].tr = Pending /\ loc[t].md = Pending
                    THEN /\ pc'[t] = "fetching"
                         /\ Appended(t) = <<>>
                         /\ (loc'[t].tr = Pending) # (loc'[t].md = Pending)
                         /\ loc'[t].tr \in TranscriptResults \cup {Pending}
                         /\ loc'[t].md \in MetadataResults \cup {Pending}
                    ELSE /\ pc'[t] = "provider_config"
                         /\ Len(Appended(t)) = 2
                         /\ Appended(t)[1].ev = "generateSummary"
                         /\ Appended(t)[1].transcript \in TranscriptResults
                         /\ Appended(t)[1].metadata \in MetadataResults
                         /\ loc[t].tr # Pending => Appended(t)[1].transcript = loc[t].tr
                         /\ loc[t].md # Pending => Appended(t)[1].metadata = loc[t].md
                         /\ Appended(t)[2] = Attempt("gemini")]_vars

\* the cascade of a request runs on a transcript fetch that settled with
\* its failure default and a metadata fetch that settled with its result
C30_Witness ==
    /\ pc["t1"] = "provider_fetch"
    /\ call["t1"].op = "generateAndShowSummary"
    /\ LET log == call["t1"].log
           started == {k \in 1..Len(log) : log[k].ev = "fetchTranscript"}
           joined == Events(log, "generateSummary")
       IN  /\ Cardinality(started) = 1
           /\ \A k \in started : log[k + 1].ev = "fetchMetadata"
           /\ Len(joined) = 1
           /\ ~joined[1].transcript.available
           /\ joined[1].metadata.title = Str("Video title")

(***************************************************************************)
(* Properties of the callers of the pipeline, of the fetcher's fallbacks   *)
(* and of the frame of the cache and the side panel                        *)
(***************************************************************************)
\* a step of the content script in which a getSummary message is answered
AnswerArrives(t) ==
    /\ pc[t] = "page"
    /\ pc'[t] = "page"
    /\ loc'[t].requests # loc[t].requests
    /\ loc'[t].requests \subseteq loc[t].requests

\* C31: the answer to a getSummary message is rendered, as summary or as
\* error, exactly when the video id of its request is the one currentVideoId
\* holds when the answer arrives; the pointer is then inside a thumbnail,
\* and once it has left nothing is current, so an answer for a video the
\* pointer has left is dropped
C31_StaleAnswersDropped ==
    [][\A t \in {ContentTask} :
          AnswerArrives(t) =>
            LET rq == CHOOSE r \in loc[t].requests : r \notin loc'[t].requests
                new == Appended(t)
            IN  /\ new # <<>> <=> loc[t].currentVideoId = rq.videoId
                /\ new # <<>> =>
                      /\ Len(new) = 1
                      /\ new[1].ev = "tooltip"
                      /\ new[1].hover = rq.hover
                      /\ new[1].kind \in HoverResponses
                      /\ loc[t].inside
                /\ ~loc[t].inside => loc[t].currentVideoId = ""]_vars

\* the answer to the first hover's request arrived after the pointer had
\* left and was dropped; the answer to the second hover's request, for
\* another video, was rendered
C31_Witness ==
    /\ pc[ContentTask] = "page"
    /\ loc[ContentTask].requests = {}
    /\ LET log == call[ContentTask].log
           requests == Events(log, "request")
           shown == SelectSeq(log, LAMBDA e : e.ev = "tooltip" /\ e.kind # "loading")
       IN  /\ Len(requests) = 2
           /\ requests[1].videoId # requests[2].videoId
           /\ \E k \in 1..Len(log) :
                 log[k].ev = "leave" /\ log[k].hover = requests[1].hover
           /\ Len(shown) = 1
           /\ shown[1].hover = requests[2].hover
           /\ shown[1].kind = "success"

\* the messages of a call that tell the side panel how the request ended
Terminal(c) ==
    SelectSeq(Sent(c), LAMBDA m : m.action \in {"showSummary", "showError"})

\* C32: of two context-menu requests in flight together, the one made
\* last is the last to send its showSummary or showError: whenever the
\* later request has sent its summary, the earlier one has sent its own
\* showSummary or showError before
C32_LastRequestedAnswersLast ==
    ( /\ call[LaterClick] # NoCall
      /\ Terminal(call[LaterClick]) # <<>>
      /\ Terminal(call[LaterClick])[1].action = "showSummary" )
    => Terminal(call[EarlierClick]) # <<>>

\* the listener has called generateAndShowSummary: showLoading went out
Invoked(c) == Sent(c) # <<>> /\ Sent(c)[1].action = "showLoading"

\* C33: a generateAndShowSummary call sends no showSummary or showError
\* while it runs and has sent exactly one when it has ended, whichever way
\* it ended; that message is the last the request sends and follows the
\* showLoading of the same click
C33_OneTerminalMessage ==
    \A t \in {MenuTask} :
      (call[t].op = "onClicked" /\ pc[t] # "panel_open") =>
        LET sent == Sent(call[t])
            terminal == Terminal(call[t])
        IN  /\ Len(terminal) <= 1
            /\ (Invoked(call[t]) /\ pc[t] # "idle") => terminal = <<>>
            /\ (Invoked(call[t]) /\ pc[t] = "idle") =>
                  /\ Len(sent) = 2
                  /\ sent[2].action \in {"showSummary", "showError"}
                  /\ call[t].log[Len(call[t].log)] = SendEvent(sent[2])
            /\ ~Invoked(call[t]) => pc[t] = "idle"

\* a click whose request ended with the summary of a provider, sent behind
\* the showLoading of that click
C33_Witness ==
    /\ pc[MenuTask] = "idle"
    /\ call[MenuTask].op = "onClicked"
    /\ Invoked(call[MenuTask])
    /\ Len(Terminal(call[MenuTask])) = 1
    /\ Terminal(call[MenuTask])[1].action = "showSummary"
    /\ ~Terminal(call[MenuTask])[1].data.fromCache
    /\ Len(Events(call[MenuTask].log, "failed")) = 3

\* a step of the context-menu request in which a message is sent while the
\* side panel has no listener
SendsUnheard(t) ==
    /\ pc[t] # "idle"
    /\ call[t].op = "onClicked"
    /\ pc[PanelTask] # "listening"
    /\ AppendedOf(t, {"sendMessage"}) # <<>>

\* C38: a message that finds no listener changes nothing in the request:
\* after an unheard showLoading generateAndShowSummary runs, an unheard
\* showSummary or showError ends the request as a delivered one would, no
\* request ends rejected by a failed delivery, and the cache write of a
\* generated summary stores it whether or not the panel listens
C38_NotifyIsBestEffort ==
    [][\A t \in {MenuTask} :
          /\ SendsUnheard(t) =>
                LET msg == AppendedOf(t, {"sendMessage"})[1].msg IN
                /\ Len(AppendedOf(t, {"sendMessage"})) = 1
                /\ msg.action = "showLoading" => pc'[t] = "check_config"
                /\ msg.action # "showLoading" =>
                      /\ pc'[t] = "idle"
                      /\ call'[t].ret = Null
          /\ ( /\ pc[t] = "cache_write"
               /\ call[t].op = "onClicked"
               /\ call'[t] # call[t]
               /\ AppendedOf(t, {"local.set"})[1].ok )
             => /\ localStore'[CacheKey(call[t].args.videoId)].data = loc[t].result
                /\ Terminal(call'[t])[1] = [action |-> "showSummary",
                                            data |-> loc[t].result]]_vars

\* the side panel was never opened, and the request sent showLoading and
\* showSummary all the same and cached the summary it sent
C38_Witness ==
    /\ call[PanelTask] = NoCall
    /\ pc[MenuTask] = "idle"
    /\ call[MenuTask].op = "onClicked"
    /\ Invoked(call[MenuTask])
    /\ Len(Terminal(call[MenuTask])) = 1
    /\ Terminal(call[MenuTask])[1].action = "showSummary"
    /\ CacheKey("abc123") \in DOMAIN localStore
    /\ localStore[CacheKey("abc123")].data = Terminal(call[MenuTask])[1].data

\* the positions in a log of the requests of url
RequestsOf(log, url) == {i \in 1..Len(log) : log[i].ev = "fetch" /\ log[i].url = url}

\* a fetchTranscript call that has returned
TranscriptReturned(c) == c.op = "fetchTranscript" /\ pc[CacheCaller] = "idle"

\* C34: fetchTranscript tries its methods in a fixed order and stops at the
\* first that yields non-empty text: the player endpoint is asked first, the
\* watch page is asked only when the player endpoint method gave no non-empty
\* text and only after it; the source of the result names the method whose
\* text is returned, and when both methods fail the result is text null,
\* available false, source null
C34_MethodsInOrder ==
    LET c == call[CacheCaller] IN
    TranscriptReturned(c) =>
      LET env == c.args.env
          first == FetchViaInnertube(env)
          second == FetchFromVideoPage(env)
          page == RequestsOf(c.log, WatchUrl(c.args.videoId))
      IN  /\ c.log[1] = FetchEvent(PlayerUrl)
          /\ (page # {}) <=> ~TruthyStr(first)
          /\ \A i \in page : i = Len(InnertubeRequests(env)) + 1
          /\ \A i \in page : \A j \in 1..(i - 1) : c.log[j] = InnertubeRequests(env)[j]
          /\ IF TruthyStr(first)
               THEN c.ret = [text |-> first, available |-> TRUE, source |-> Str("innertube")]
             ELSE IF TruthyStr(second)
               THEN c.ret = [text |-> second, available |-> TRUE, source |-> Str("page_scrape")]
             ELSE c.ret = [text |-> Null, available |-> FALSE, source |-> Null]

\* the first method asked for a track and gave nothing; the second gave the text
C34_Witness ==
    LET c == call[CacheCaller] IN
    /\ TranscriptReturned(c)
    /\ Len(c.log) >= 4
    /\ c.ret.source = Str("page_scrape")
    /\ TruthyStr(c.ret.text)

\* the URL of the track _fetchViaInnertube selects, or null when it selects none
TrackUrlOf(env) ==
    IF env.player.kind # "ok" THEN Null
    ELSE IF env.player.body = Null THEN Null
    ELSE IF env.player.body.captionTracks = Null THEN Null
    ELSE IF Len(env.player.body.captionTracks.items) = 0 THEN Null
    ELSE SelectBestTrack(env.player.body.captionTracks).baseUrl

\* the json3 request of the call was made and failed in one of the given ways
Json3Failed(c, kinds) ==
    /\ TranscriptReturned(c)
    /\ TrackUrlOf(c.args.env) # Null
    /\ c.args.env.json3.kind \in kinds

\* the bare track URL was requested right behind the json3 request, and a
\* timed-text answer with text in it is what the call returns
RetriedAsMarkup(c) ==
    LET env == c.args.env
        url == TrackUrlOf(env).value
        xml == ParseTranscriptXml(env.xml.body)
    IN  /\ Len(c.log) >= 3
        /\ c.log[2] = FetchEvent(url \o Json3Suffix)
        /\ c.log[3] = FetchEvent(url)
        /\ env.xml.kind = "ok" /\ TruthyStr(xml) =>
              c.ret = [text |-> xml, available |-> TRUE, source |-> Str("innertube")]

\* C35 as stated: whenever the json3 request fails, by a non-2xx status or by
\* a transport error, the same track URL is requested again as timed-text
\* markup and that payload is parsed instead
C35_AnyJson3FailureRetries ==
    LET c == call[CacheCaller] IN
    Json3Failed(c, {"http", "network"}) => RetriedAsMarkup(c)

\* C35: the json3 payload of the selected track is requested first; when the
\* answer has a non-2xx status the same track URL is requested again without
\* the format parameter and that payload is parsed instead; when the json3
\* request fails in transport, or its body is not JSON, the track URL is not
\* requested again and the method yields nothing
C35_NonOkJson3Retries ==
    LET c == call[CacheCaller] IN
    /\ Json3Failed(c, {"http"}) => RetriedAsMarkup(c)
    /\ Json3Failed(c, {"network", "malformed"}) =>
          /\ c.log[2] = FetchEvent(TrackUrlOf(c.args.env).value \o Json3Suffix)
          /\ RequestsOf(c.log, TrackUrlOf(c.args.env).value) = {}
          /\ c.log[3] = FetchEvent(WatchUrl(c.args.videoId))
          /\ c.ret.source # Str("innertube")

\* a non-2xx json3 answer, and the timed-text payload is what is returned
C35_Witness ==
    LET c == call[CacheCaller] IN
    /\ Json3Failed(c, {"http"})
    /\ c.ret.source = Str("innertube")
    /\ c.ret.text = ParseTranscriptXml(c.args.env.xml.body)
    /\ c.log[3] = FetchEvent(TrackUrlOf(c.args.env).value)

\* the lines of text that hold "disclaimer:" in any letter case
MarkedLines(text) ==
    {i \in 1..Len(Split(text)) : IndexFrom(Split(text)[i].line, "disclaimer:", 1) > 0}

\* the trimmed text behind the first "disclaimer:" of a line
BehindMarker(line) ==
    Trim(From(line, IndexFrom(line, "disclaimer:", 1) + Len("disclaimer:")))

\* C36 as stated: the disclaimer is non-null only when some line begins with
\* DISCLAIMER: in any letter case, and then it is the trimmed remainder of
\* that same line
C36_DisclaimerFromItsLine ==
    \A t \in ParsedCalls :
        LET lines == Split(call[t].args.text) IN
        call[t].ret.disclaimer # Null =>
            \E i \in 1..Len(lines) :
                /\ IndexFrom(lines[i].line, "disclaimer:", 1) = 1
                /\ call[t].ret.disclaimer = Str(BehindMarker(lines[i].line))

\* C36: the disclaimer is non-null only when the text holds DISCLAIMER: in
\* any letter case, at the start of a line or inside one; it is then the
\* trimmed text from the first non-blank character behind the first marker
\* to the end of that character's line: the remainder of the marker's line
\* when there is text on it, and otherwise the next line that is not blank
C36_DisclaimerAfterFirstMarker ==
    \A t \in ParsedCalls :
        LET lines == Split(call[t].args.text)
            marked == MarkedLines(call[t].args.text)
            d == call[t].ret.disclaimer
        IN  IF marked = {} THEN d = Null
            ELSE LET i == Least(marked)
                     later == {j \in (i + 1)..Len(lines) : Trim(lines[j].line) # ""}
                 IN  IF BehindMarker(lines[i].line) # ""
                       THEN d = Str(BehindMarker(lines[i].line))
                     ELSE IF later # {}
                       THEN d = Str(Trim(lines[Least(later)].line))
                     ELSE d \in {Null, Str("")}

\* a marker alone on its line, and the disclaimer is the line behind it
C36_Witness ==
    \E t \in ParsedCalls :
        LET lines == Split(call[t].args.text) IN
        /\ lines[1].line = "DISCLAIMER:"
        /\ call[t].ret.disclaimer = Str(lines[2].line)
        /\ lines[2].line # ""

\* the trimmed lines behind the first TAKEAWAYS: that start with digits and
\* a dot, in order
NumberedLinesAfterMarker(text) ==
    LET after == TextAfter(text, "takeaways:")
    IN  IF after = Null THEN <<>>
        ELSE SelectSeq(TrimLines(Split(after.value)),
                       LAMBDA l : /\ LeadingDigits(l.line) >= 1
                                  /\ Len(l.line) > LeadingDigits(l.line)
                                  /\ SubSeq(l.line, LeadingDigits(l.line) + 1,
                                            LeadingDigits(l.line) + 1) = ".")

\* s starts with a digit sequence followed by a dot
StartsWithNumeral(s) ==
    \E d \in 1..Len(s) :
        /\ \A i \in 1..d : SubSeq(s, i, i) \in Digits
        /\ SubSeq(s, d + 1, d + 1) = "."

\* item is line without its numeral, its dot and the white space behind it
WithoutNumeral(line, item) ==
    \E d \in 1..Len(line), n \in 1..Len(line) :
        /\ \A i \in 1..d : SubSeq(line, i, i) \in Digits
        /\ SubSeq(line, d + 1, d + 1) = "."
        /\ \A i \in (d + 2)..(d + 1 + n) : IsSpace(SubSeq(line, i, i))
        /\ item = SubSeq(line, d + 2 + n, Len(line))
        /\ item # ""
        /\ ~IsSpace(SubSeq(item, 1, 1))

\* C37 as stated: every returned takeaway comes from a numbered line behind
\* TAKEAWAYS: with the numeral prefix removed, and no returned takeaway still
\* starts with its digits and dot
C37_NoTakeawayKeepsNumeral ==
    \A t \in ParsedCalls :
        LET items == call[t].ret.takeaways.items
            lines == NumberedLinesAfterMarker(call[t].args.text)
        IN  \A k \in 1..Len(items) :
                /\ k <= Len(lines)
                /\ WithoutNumeral(lines[k].line, items[k])
                /\ ~StartsWithNumeral(items[k])

\* C37: the returned takeaways are the first numbered lines behind the first
\* TAKEAWAYS:, in order, each a trimmed line that starts with a digit
\* sequence and a dot; the numeral, the dot and the white space behind it
\* are removed when white space follows the dot, and the line is returned as
\* it is, numeral and dot included, when the text follows the dot directly
C37_NumeralRemovedBeforeSpace ==
    \A t \in ParsedCalls :
        LET items == call[t].ret.takeaways.items
            lines == NumberedLinesAfterMarker(call[t].args.text)
        IN  /\ Len(items) = IF Len(lines) < MaxTakeaways THEN Len(lines) ELSE MaxTakeaways
            /\ \A k \in 1..Len(items) :
                  LET line == lines[k].line
                      d == LeadingDigits(line)
                  IN  IF Len(line) > d + 1 /\ IsSpace(SubSeq(line, d + 2, d + 2))
                        THEN WithoutNumeral(line, items[k])
                        ELSE items[k] = line /\ StartsWithNumeral(items[k])

\* one takeaway lost its numeral, the next kept it
C37_Witness ==
    \E t \in ParsedCalls :
        LET items == call[t].ret.takeaways.items
            lines == NumberedLinesAfterMarker(call[t].args.text)
        IN  /\ Len(items) = MaxTakeaways
            /\ lines[1].line = "1. insight 1" /\ items[1] = "insight 1"
            /\ lines[2].line = "2.insight 2" /\ items[2] = "2.insight 2"

\* C40: showing a stored history item (showHistoryItem) leaves the history
\* list unchanged: it adds no entry, removes none and does not reorder it
C40_ShowHistoryItemKeepsList ==
    [][\A index \in 1..HistoryLimit :
          ShowHistoryItem(PanelTask, index) =>
              /\ loc'[PanelTask].recentSummaries = loc[PanelTask].recentSummaries
              /\ loc'[PanelTask].writes = loc[PanelTask].writes]_vars

\* a storage key outside the namespace of the cache
OutsideCache(k) ==
    Len(k) < Len(CACHE_PREFIX) \/ SubSeq(k, 1, Len(CACHE_PREFIX)) # CACHE_PREFIX

\* a step of clear(): the cache caller is in a clear call behind it and the
\* side panel has not moved
ClearSteps ==
    /\ call'[CacheCaller].op = "clear"
    /\ pc'[PanelTask] = pc[PanelTask]
    /\ loc'[PanelTask] = loc[PanelTask]
    /\ call'[PanelTask] = call[PanelTask]

\* C39: clear() leaves every storage key outside the cache namespace as it
\* is, recentSummaries in particular, and the count it returns is the number
\* of cache entries it removed: keys outside the namespace are not counted
C39_ClearKeepsOtherKeys ==
    [][ClearSteps =>
          /\ \A k \in DOMAIN localStore :
                OutsideCache(k) => k \in DOMAIN localStore' /\ localStore'[k] = localStore[k]
          /\ pc'[CacheCaller] = "idle" =>
                call'[CacheCaller].ret =
                    Cardinality({k \in DOMAIN localStore : ~OutsideCache(k)})
                      - Cardinality({k \in DOMAIN localStore' : ~OutsideCache(k)})]_vars

\* a clear has removed two cache entries and returned 2 while the stored
\* history of the side panel holds the summaries shown
C39_Witness ==
    /\ pc[CacheCaller] = "idle"
    /\ call[CacheCaller].op = "clear"
    /\ call[CacheCaller].ret = 2
    /\ DOMAIN localStore = {HISTORY_KEY}
    /\ Len(localStore[HISTORY_KEY]) >= 2
====
